---- MODULE Spec2Model ----
(***************************************************************************)
(* Model of the two Katamari tools:                                        *)
(*   d04Injector.py  KatamariDatEditor  (block scan / inject in the .dat)  *)
(*   kata.py         KatamariEditor     (entity tree load / edit / save)   *)
(* Texts and files are sequences of one-character strings; offsets are     *)
(* 0-based as in the Python source.                                        *)
(***************************************************************************)
EXTENDS Integers, Sequences, FiniteSets, TLC

(***************************************************************************)
(* Python string / bytes primitives                                        *)
(***************************************************************************)
Min(S) == CHOOSE x \in S : \A y \in S : x <= y
Max(S) == CHOOSE x \in S : \A y \in S : x >= y

\* s[a:b] for 0 <= a, 0 <= b (clipped to the length, empty when a >= b)
Slice(s, a, b) == SubSeq(s, a + 1, IF b > Len(s) THEN Len(s) ELSE b)

\* s[a:b] with Python's treatment of negative indices
PySlice(s, a, b) ==
  LET n  == Len(s)
      na == IF a < 0 THEN (IF n + a < 0 THEN 0 ELSE n + a) ELSE a
      nb == IF b < 0 THEN (IF n + b < 0 THEN 0 ELSE n + b) ELSE b
  IN  Slice(s, na, nb)

\* s[a:]
From(s, a) == Slice(s, a, Len(s))

MatchAt(s, sub, i) ==
  /\ i >= 0
  /\ i + Len(sub) <= Len(s)
  /\ \A k \in 1..Len(sub) : s[i + k] = sub[k]

\* s.find(sub, from): lowest offset >= from where sub occurs, -1 when none
Find(s, sub, from) ==
  LET c == {i \in from..(Len(s) - Len(sub)) : MatchAt(s, sub, i)}
  IN  IF c = {} THEN -1 ELSE Min(c)

\* variant: the lowest offset
RFindFirst(s, sub) ==
  LET c == {i \in 0..(Len(s) - Len(sub)) : MatchAt(s, sub, i)}
  IN  IF c = {} THEN -1 ELSE Min(c)

\* s.rfind(sub): highest offset where sub occurs, -1 when none
RFind(s, sub) ==
  LET c == {i \in 0..(Len(s) - Len(sub)) : MatchAt(s, sub, i)}
  IN  IF c = {} THEN -1 ELSE Max(c)

\* ' ' * n  (empty for n <= 0)
Spaces(n) == [i \in 1..n |-> " "]

\* s.ljust(w) and s.rjust(w)
Ljust(s, w) == s \o Spaces(w - Len(s))
Rjust(s, w) == Spaces(w - Len(s)) \o s

\* variant: the data is inserted at start instead of overwriting what is there
WriteInsert(bytes, start, data) ==
  Slice(bytes, 0, start) \o data \o From(bytes, start)

\* f.seek(start); f.write(data) on a file opened 'r+b'
WriteAt(bytes, start, data) ==
  LET gap  == [i \in 1..(start - Len(bytes)) |-> "x00"]
      base == bytes \o gap
  IN  Slice(base, 0, start) \o data \o From(base, start + Len(data))

(***************************************************************************)
(* bytes <-> text.  Byte symbols: one-character strings are ASCII bytes;   *)
(* "xFF" is a byte that is not valid UTF-8; "xC3","xA9" is the two-byte    *)
(* encoding of the one character "E9"; "x00" is a NUL byte.                *)
(***************************************************************************)
\* bytes.decode('utf-8', errors='ignore'); DecodeFrom gives the characters
\* that bytes lo..hi of b decode to (halving keeps the recursion shallow)
Decode(b) ==
  LET RECURSIVE DecodeFrom(_, _)
      DecodeFrom(lo, hi) ==
        IF lo > hi THEN <<>>
        ELSE IF lo < hi
               THEN DecodeFrom(lo, (lo + hi) \div 2) \o DecodeFrom((lo + hi) \div 2 + 1, hi)
        ELSE IF b[lo] = "xC3" /\ lo < Len(b) /\ b[lo + 1] = "xA9" THEN <<"E9">>
        ELSE IF b[lo] \in {"xFF", "xC3", "xA9"} THEN <<>>
        ELSE <<b[lo]>>
  IN  DecodeFrom(1, Len(b))

\* str.encode('utf-8')
RECURSIVE Encode(_)
Encode(t) ==
  IF Len(t) > 1
    THEN Encode(SubSeq(t, 1, Len(t) \div 2)) \o Encode(SubSeq(t, Len(t) \div 2 + 1, Len(t)))
  ELSE IF t = <<"E9">> THEN <<"xC3", "xA9">>
  ELSE t

(***************************************************************************)
(* Regular expressions used by the scanners and the text builders          *)
(***************************************************************************)
WordChars ==
  {"a","b","c","d","e","f","g","h","i","j","k","l","m","n","o","p","q","r","s","t","u",
   "v","w","x","y","z","A","B","C","D","E","F","G","H","I","J","K","L","M","N","O","P",
   "Q","R","S","T","U","V","W","X","Y","Z","0","1","2","3","4","5","6","7","8","9","_",
   "E9"}
SpaceChars == {" ", "\n", "\t", "\r"}

\* offset of the first character at or after i that is not in the class cs
SkipClass(s, i, cs) ==
  LET stop == {j \in i..Len(s) : j = Len(s) \/ s[j + 1] \notin cs}
  IN  Min(stop)

\* after offset i: \s*=\s*"(.*?)"  ('.' does not match a newline)
\* gives [ok, vstart, vend] with the value at s[vstart:vend]
ValueAfter(s, i) ==
  LET Closed(vs, ve) ==
        IF ve >= 0 /\ \A k \in (vs + 1)..ve : s[k] # "\n"
          THEN [ok |-> TRUE, vstart |-> vs, vend |-> ve]
          ELSE [ok |-> FALSE, vstart |-> 0, vend |-> 0]
      Opened(vs) == Closed(vs, IF vs >= 0 THEN Find(s, <<"\"">>, vs) ELSE -1)
      AfterEq(q1) ==
        Opened(IF q1 >= 0 /\ q1 < Len(s) /\ s[q1 + 1] = "\"" THEN q1 + 1 ELSE -1)
      AfterKey(e) ==
        AfterEq(IF e < Len(s) /\ s[e + 1] = "=" THEN SkipClass(s, e + 1, SpaceChars) ELSE -1)
  IN  AfterKey(SkipClass(s, i, SpaceChars))

\* a match of (\w+)\s*=\s*"(.*?)" that starts at offset i
AttrAt(s, i) ==
  LET Got(ke, v) ==
        [ok |-> v.ok, key |-> Slice(s, i, ke), val |-> Slice(s, v.vstart, v.vend),
         end |-> v.vend + 1]
      Key(ke) == Got(ke, ValueAfter(s, ke))
  IN  IF i < Len(s) /\ s[i + 1] \in WordChars
        THEN Key(SkipClass(s, i, WordChars))
        ELSE [ok |-> FALSE, key |-> <<>>, val |-> <<>>, end |-> 0]

\* re.findall(r'(\w+)\s*=\s*"(.*?)"', s): the (key, value) pairs in order
FindAll(s) ==
  LET RECURSIVE FindAllFrom(_)
      FindAllFrom(pos) ==
        LET Rest(m) == <<[key |-> m.key, val |-> m.val]>> \o FindAllFrom(m.end)
            First(c) == IF c = {} THEN <<>> ELSE Rest(AttrAt(s, Min(c)))
        IN  First({i \in pos..(Len(s) - 1) : AttrAt(s, i).ok})
  IN  FindAllFrom(0)

\* re.sub(f'({key}\\s*=\\s*").*?(")', lambda m: m.group(1) + nv + m.group(2), s, count=1)
SubValue(s, key, nv) ==
  LET Put(v) == Slice(s, 0, v.vstart) \o nv \o From(s, v.vend)
      First(c) == IF c = {} THEN s ELSE Put(ValueAfter(s, Min(c) + Len(key)))
  IN  First({i \in 0..(Len(s) - Len(key)) :
               MatchAt(s, key, i) /\ ValueAfter(s, i + Len(key)).ok})

\* str.split(): the maximal runs of non-whitespace characters
Split(s) ==
  LET RECURSIVE SplitFrom(_)
      SplitFrom(pos) ==
        LET Word(a, b) == <<Slice(s, a, b)>> \o SplitFrom(b)
            At(a) == IF a >= Len(s) THEN <<>>
                     ELSE Word(a, Min({j \in a..Len(s) : j = Len(s) \/ s[j + 1] \in SpaceChars}))
        IN  At(SkipClass(s, pos, SpaceChars))
  IN  SplitFrom(0)

RECURSIVE Join(_, _)
\* sep.join(parts)
Join(sep, parts) ==
  IF parts = <<>> THEN <<>>
  ELSE IF Len(parts) = 1 THEN parts[1]
  ELSE parts[1] \o sep \o Join(sep, Tail(parts))

(***************************************************************************)
(* Numbers.  A float is modelled by the exact rational it stands for, in   *)
(* sign-magnitude form so that -0.0 is kept apart from 0.0:                *)
(*   [neg |-> BOOLEAN, n |-> Nat, d |-> Nat \ {0}]   value (-1)^neg * n/d  *)
(***************************************************************************)
DigitChars == <<"0","1","2","3","4","5","6","7","8","9">>

RECURSIVE NatStr(_)
NatStr(n) == IF n < 10 THEN <<DigitChars[n + 1]>> ELSE NatStr(n \div 10) \o <<DigitChars[(n % 10) + 1]>>

\* variant: the sign of a number is kept
NegSame(a) == a

\* the rational n/d in lowest terms, negative when neg
Num(neg, n, d) ==
  LET RECURSIVE GCD(_, _)
      GCD(a, b) == IF b = 0 THEN a ELSE GCD(b, a % b)
      Reduced(g) == [neg |-> neg, n |-> n \div g, d |-> d \div g]
  IN  Reduced(GCD(n, d))
Neg(a) == [a EXCEPT !.neg = ~a.neg]

\* str.strip()
Strip(s) ==
  LET ks == {i \in 1..Len(s) : s[i] \notin SpaceChars}
  IN  IF ks = {} THEN <<>> ELSE SubSeq(s, Min(ks), Max(ks))

\* float(s) for plain decimal literals: [sign] digits [. digits] | [sign] . digits
\* ok = FALSE stands for ValueError
Float(s) ==
  LET IsDigit(c) == c \in {DigitChars[i] : i \in 1..10}
      DigitVal(c) == (CHOOSE i \in 1..10 : DigitChars[i] = c) - 1
      RECURSIVE Pow10(_)
      Pow10(k) == IF k <= 0 THEN 1 ELSE 10 * Pow10(k - 1)
      RECURSIVE DigitsToNat(_)
      DigitsToNat(ds) ==
        IF ds = <<>> THEN 0
        ELSE 10 * DigitsToNat(SubSeq(ds, 1, Len(ds) - 1)) + DigitVal(ds[Len(ds)])
      Parts(neg, ip, fp) ==
        IF /\ Len(ip) + Len(fp) > 0
           /\ \A i \in 1..Len(ip) : IsDigit(ip[i])
           /\ \A i \in 1..Len(fp) : IsDigit(fp[i])
          THEN [ok |-> TRUE, val |-> Num(neg, DigitsToNat(ip \o fp), Pow10(Len(fp)))]
          ELSE [ok |-> FALSE, val |-> Num(FALSE, 0, 1)]
      Dotted(neg, body, dot) ==
        Parts(neg, IF dot = -1 THEN body ELSE Slice(body, 0, dot),
                   IF dot = -1 THEN <<>> ELSE From(body, dot + 1))
      Signed(neg, body) == Dotted(neg, body, Find(body, <<".">>, 0))
      Stripped(t) ==
        IF t # <<>> /\ t[1] \in {"-", "+"} THEN Signed(t[1] = "-", Tail(t))
        ELSE Signed(FALSE, t)
  IN  Stripped(Strip(s))

\* f"{val:.{places}f}": fixed notation, rounded to nearest, ties to even.
\* FracDigits: the first k decimals of r/d (0 <= r < d) and the remainder
\* left after them; IncDigits: one unit added in the last place of a digit
\* list, carry = TRUE when it overflows
FormatFixed(val, places) ==
  LET RECURSIVE FracDigits(_, _, _)
      FracDigits(r, d, k) ==
        IF k = 0 THEN [ds |-> <<>>, rem |-> r]
        ELSE LET rest == FracDigits((10 * r) % d, d, k - 1)
             IN  [ds |-> <<(10 * r) \div d>> \o rest.ds, rem |-> rest.rem]
      RECURSIVE IncDigits(_)
      IncDigits(digits) ==
        IF digits = <<>> THEN [ds |-> <<>>, carry |-> TRUE]
        ELSE LET lastd0 == digits[Len(digits)]
                 init == SubSeq(digits, 1, Len(digits) - 1)
             IN  IF lastd0 < 9 THEN [ds |-> Append(init, lastd0 + 1), carry |-> FALSE]
                 ELSE LET r == IncDigits(init) IN [ds |-> Append(r.ds, 0), carry |-> r.carry]
      Out(ip, ds) ==
        (IF val.neg THEN <<"-">> ELSE <<>>) \o NatStr(ip)
          \o (IF places = 0 THEN <<>>
              ELSE <<".">> \o [i \in 1..places |-> DigitChars[ds[i] + 1]])
      Up(ip, inc) == Out(IF inc.carry THEN ip + 1 ELSE ip, inc.ds)
      Rounded(ip, fr, lastd) ==
        IF 2 * fr.rem > val.d \/ (2 * fr.rem = val.d /\ lastd % 2 = 1)
          THEN Up(ip, IncDigits(fr.ds))
          ELSE Out(ip, fr.ds)
      Digits(ip, fr) == Rounded(ip, fr, IF places = 0 THEN ip % 10 ELSE fr.ds[places])
  IN  Digits(val.n \div val.d, FracDigits(val.n % val.d, val.d, places))

(***************************************************************************)
(* d04Injector.py: signatures, region offsets and the files on disk.       *)
(* The region offsets keep the order of the source's constants, scaled to  *)
(* the size of the model's files.                                          *)
(***************************************************************************)
LOC_START_SIG ==
  <<"<","l","o","c",">">>
LOC_END_SIG ==
  <<"<","/","l","o","c",">">>
SMIDATA_SIG ==
  <<"<","S","M","i","D","a","t","a">>
SDATA_SIG ==
  <<"<","S","D","a","t","a">>
SLASH_GT ==
  <<"/",">">>
ROOT_START_SIG ==
  <<"<","r","o","o","t",">">>
ROOT_END_SIG ==
  <<"<","/","r","o","o","t",">">>
AREA_SIG ==
  <<"<","S","G","i","A","r","e","a","C","h","a","n","g","e","D","a","t","a">>
WARP_SIG ==
  <<"<","S","G","i","M","i","W","a","r","p">>
END_TAG ==
  <<"<","/","e","n","t","i","t","y","T","r","e","e",">">>
K_Stage ==
  <<"S","t","a","g","e">>
K_c8Code ==
  <<"c","8","C","o","d","e">>
K_s32CoreSize ==
  <<"s","3","2","C","o","r","e","S","i","z","e">>
K_fvPosi ==
  <<"f","v","P","o","s","i">>
K_f32FadeColor ==
  <<"f","3","2","F","a","d","e","C","o","l","o","r">>


SDATA_START == 2
SDATA_END == 72
SDATA_SLACK == 1
SMIDATA_START == 74
SMIDATA_END == 142
SMIDATA_SLACK == 70
WARP_START == 144
WARP_END == 211
WARP_SLACK == 1
LOC_START == 250

PadTo(s, n) == s \o [i \in 1..(n - Len(s)) |-> "\n"]

\* a .dat file with the four regions at their offsets
DatFile(sd, sm, wp, lc) ==
  PadTo(PadTo(PadTo(PadTo(<<>>, SDATA_START) \o sd, SMIDATA_START) \o sm, WARP_START) \o wp,
        LOC_START) \o lc

Paths == {"a.dat", "b.dat", "c.dat"}
NoPath == "none"
\* the .dat files on disk and the text of their regions
InitialDisk ==
  LET SDataRegionA ==
          <<"<","S","D","a","t","a"," ","S","t","a","g","e","=","\"","A","\""," ","D","i","r","=","\"",
          "1",".","0"," ","2",".","5","\"","/",">","\n","<","S","D","a","t","a"," ","S","t","a","g",
          "e","=","\"","B","\""," ","A","m","b","=","\"","0",".","5"," "," ","1","\"","/",">">>
      SMiDataRegionA ==
          <<"<","S","M","i","D","a","t","a"," ","c","8","C","o","d","e","=","\"","L","1","\""," ","s","8",
          "I","n","d","e","x","=","\"","3","\"","/",">","\n","<","S","M","i","D","a","t","a"," ",
          "c","8","C","o","d","e","=","\"","L","xFF","\""," ","u","8","F","o","g","=","\"","1","0",
          "\"","/",">">>
      WarpRegionA ==
          <<"<","!","-","-"," ","W","1"," ","-","-",">","<","r","o","o","t",">","<","S","G","i","A","r",
          "e","a","C","h","a","n","g","e","D","a","t","a"," ","s","1","6","M","a","p","=","\"","1",
          "2","\""," ","s","1","6","L","o","c","=","\"","3","\"","/",">","<","/","r","o","o","t",">">>
      LocRegionA ==
          <<"<","l","o","c",">","a","b","<","/","e","n","t","i","t","y","T","r","e","e",">","<","/","l",
          "o","c",">","\n","<","l","o","c",">","c","d","e","f","<","/","l","o","c",">">>
      WarpRegionB ==
          <<"<","r","o","o","t",">","z","z","<","/","r","o","o","t",">">>
      LocRegionB ==
          <<"<","l","o","c",">","q","<","/","l","o","c",">">>
      \* two blocks of one stage, and a block without a stage whose key Y
      \* ends the name of another attribute
      SDataRegionC ==
          <<"<","S","D","a","t","a"," ","S","t","a","g","e","=","\"","A","\""," ","X","=",
          "\"","1","\"","/",">","<","S","D","a","t","a"," ","S","t","a","g","e","=","\"",
          "A","\""," ","X","=","\"","2","\"","/",">","<","S","D","a","t","a"," ","a","Y",
          "=","\"","1","\""," ","Y","=","\"","2","\"","/",">">>
      \* a key that ends the name of an earlier attribute, and a key given twice
      SMiDataRegionC ==
          <<"<","S","M","i","D","a","t","a"," ","c","8","C","o","d","e","=","\"","M","\"",
          " ","a","s","8","W","=","\"","1","2","\""," ","s","8","W","=","\"","3","\"","/",
          ">","<","S","M","i","D","a","t","a"," ","k","=","\"","1","\""," ","k","=","\"",
          "2","2","\"","/",">">>
      \* two entries with the same text and an end marker
      WarpRegionC ==
          <<"<","r","o","o","t",">","<","S","G","i","M","i","W","a","r","p"," ","s","1","6",
          "I","n","D","i","r","=","\"","1","\"","/",">","<","S","G","i","M","i","W","a","r",
          "p"," ","s","1","6","I","n","D","i","r","=","\"","1","\"","/",">","<","S","G","i",
          "A","r","e","a","C","h","a","n","g","e","D","a","t","a"," ","s","3","2","C","o",
          "r","e","S","i","z","e","=","\"","-","1","\"","/",">","<","/","r","o","o","t",
          ">">>
      \* a stray </loc>, a <loc> inside a <loc>, a wide slot, a <loc> left open
      LocRegionC ==
          <<"<","/","l","o","c",">","<","l","o","c",">","<","l","o","c",">","b","<","/","l",
          "o","c",">","<","l","o","c",">","0","1","2","3","4","5","6","7","8","9","0","1",
          "2","3","4","5","6","7","8","9","0","1","2","3","4","5","6","7","8","9","<","/",
          "l","o","c",">","<","l","o","c",">","u">>
  IN  [p \in Paths |->
         IF p = "a.dat" THEN DatFile(SDataRegionA, SMiDataRegionA, WarpRegionA, LocRegionA)
         ELSE IF p = "b.dat" THEN DatFile(SDataRegionA, SMiDataRegionA, WarpRegionB, LocRegionB)
         ELSE DatFile(SDataRegionC, SMiDataRegionC, WarpRegionC, LocRegionC)]

(***************************************************************************)
(* Scanners.  mm is the content of the mapped file.  src = [path, scan]    *)
(* names the file and the scan that made a record: a history field, which  *)
(* with the start offset also identifies the Python object.                *)
(***************************************************************************)
\* variant: the closing tag is searched from pos, not from the opening tag
scan_levels_from_pos(mm, src) ==
  LET RECURSIVE ScanLevelsFrom(_)
      ScanLevelsFrom(pos) ==
        LET Ended(start, end) ==
              IF start = -1 \/ end = -1 THEN <<>>
              ELSE <<[loc_start      |-> start,
                      content_start  |-> start + Len(LOC_START_SIG),
                      content_end    |-> end,
                      loc_end        |-> end + Len(LOC_END_SIG),
                      content_length |-> end - (start + Len(LOC_START_SIG)),
                      src            |-> src]>>
                   \o ScanLevelsFrom(IF end > start THEN end + Len(LOC_END_SIG)
                                     ELSE start + Len(LOC_START_SIG))
            Started(start) ==
              Ended(start, IF start = -1 THEN -1 ELSE Find(mm, LOC_END_SIG, pos))
        IN  IF ~(pos < Len(mm)) THEN <<>> ELSE Started(Find(mm, LOC_START_SIG, pos))
  IN  ScanLevelsFrom(LOC_START)

\* scan_levels_mmap; ScanLevelsFrom is its while loop from offset pos on
scan_levels_mmap(mm, src) ==
  LET RECURSIVE ScanLevelsFrom(_)
      ScanLevelsFrom(pos) ==
        LET Ended(start, end) ==
              IF start = -1 \/ end = -1 THEN <<>>
              ELSE <<[loc_start      |-> start,
                      content_start  |-> start + Len(LOC_START_SIG),
                      content_end    |-> end,
                      loc_end        |-> end + Len(LOC_END_SIG),
                      content_length |-> end - (start + Len(LOC_START_SIG)),
                      src            |-> src]>>
                   \o ScanLevelsFrom(end + Len(LOC_END_SIG))
            Started(start) ==
              Ended(start, IF start = -1 THEN -1 ELSE Find(mm, LOC_END_SIG, start))
        IN  IF ~(pos < Len(mm)) THEN <<>> ELSE Started(Find(mm, LOC_START_SIG, pos))
  IN  ScanLevelsFrom(LOC_START)

\* params[k] = v on a dict kept as a list of [key, val] in insertion order
DictSet(d, k, v) ==
  IF \E i \in 1..Len(d) : d[i].key = k
    THEN [i \in 1..Len(d) |-> IF d[i].key = k THEN [key |-> k, val |-> v] ELSE d[i]]
    ELSE Append(d, [key |-> k, val |-> v])

HasKey(d, k) == \E i \in 1..Len(d) : d[i].key = k
DictGet(d, k) == d[CHOOSE i \in 1..Len(d) : d[i].key = k].val

RECURSIVE ToDict(_)
ToDict(pairs) ==
  IF pairs = <<>> THEN <<>>
  ELSE DictSet(ToDict(SubSeq(pairs, 1, Len(pairs) - 1)),
               pairs[Len(pairs)].key, pairs[Len(pairs)].val)

UNKNOWN == <<"U","n","k","n","o","w","n">>

\* the value of the last pair with this key, dflt when there is none
LastVal(pairs, k, dflt) ==
  LET c == {i \in 1..Len(pairs) : pairs[i].key = k}
  IN  IF c = {} THEN dflt ELSE pairs[Max(c)].val

\* scan_smidata_mmap; ScanSmidataFrom is its while loop from offset pos on
scan_smidata_mmap(mm, src) ==
  LET RECURSIVE ScanSmidataFrom(_, _)
      ScanSmidataFrom(pos, end_limit) ==
        LET Block(start, block_end, block_text, pairs) ==
              <<[code   |-> LastVal(pairs, K_c8Code, UNKNOWN),
                 start  |-> start,
                 end    |-> block_end,
                 text   |-> block_text,
                 params |-> ToDict(pairs),
                 src    |-> src]>>
              \o ScanSmidataFrom(block_end, end_limit)
            Text(start, block_end, block_text) ==
              Block(start, block_end, block_text, FindAll(block_text))
            Ended(start, end) ==
              IF start = -1 \/ start > end_limit \/ end = -1 THEN <<>>
              ELSE Text(start, end + Len(SLASH_GT),
                        Decode(Slice(mm, start, end + Len(SLASH_GT))))
            Started(start) ==
              Ended(start, IF start = -1 THEN -1 ELSE Find(mm, SLASH_GT, start))
        IN  IF ~(pos < end_limit) THEN <<>> ELSE Started(Find(mm, SMIDATA_SIG, pos))
  IN  ScanSmidataFrom(SMIDATA_START, Min({SMIDATA_END + SMIDATA_SLACK, Len(mm)}))

\* scan_lighting_mmap; ScanLightingFrom is its while loop from offset pos on
scan_lighting_mmap(mm, src) ==
  LET RECURSIVE ScanLightingFrom(_, _)
      ScanLightingFrom(pos, end_limit) ==
        LET Block(start, block_end, block_text, pairs) ==
              <<[stage  |-> LastVal(pairs, K_Stage, UNKNOWN),
                 start  |-> start,
                 end    |-> block_end,
                 text   |-> block_text,
                 params |-> [i \in 1..Len(pairs) |->
                               [key      |-> pairs[i].key,
                                original |-> pairs[i].val,
                                parts    |-> Split(pairs[i].val)]],
                 src    |-> src]>>
              \o ScanLightingFrom(block_end, end_limit)
            Text(start, block_end, block_text) ==
              Block(start, block_end, block_text, FindAll(block_text))
            Ended(start, end) ==
              IF start = -1 \/ start > end_limit \/ end = -1 THEN <<>>
              ELSE Text(start, end + Len(SLASH_GT),
                        Decode(Slice(mm, start, end + Len(SLASH_GT))))
            Started(start) ==
              Ended(start, IF start = -1 THEN -1 ELSE Find(mm, SLASH_GT, start))
        IN  IF ~(pos < end_limit) THEN <<>> ELSE Started(Find(mm, SDATA_SIG, pos))
  IN  ScanLightingFrom(SDATA_START, Min({SDATA_END + SDATA_SLACK, Len(mm)}))

\* the entries of one kind in a warp block.  EntryMatchesFrom:
\* re.finditer(sig + r'\s+(.*?)\s*/>', text, re.DOTALL), [start, end) of each
\* match from offset pos on; an entry's text is group(0) and its params the
\* pairs of group(1)
WarpEntries(text, sig, type) ==
  LET RECURSIVE EntryMatchesFrom(_)
      EntryMatchesFrom(pos) ==
        LET ok(i) == /\ MatchAt(text, sig, i)
                     /\ i + Len(sig) < Len(text)
                     /\ text[i + Len(sig) + 1] \in SpaceChars
                     /\ Find(text, SLASH_GT, i + Len(sig) + 1) # -1
            Match(st, en) == <<[start |-> st, end |-> en]>> \o EntryMatchesFrom(en)
            At(st) == Match(st, Find(text, SLASH_GT, st + Len(sig) + 1) + Len(SLASH_GT))
            First(c) == IF c = {} THEN <<>> ELSE At(Min(c))
        IN  First({i \in pos..(Len(text) - Len(sig)) : ok(i)})
      Entries(ms) ==
        [i \in 1..Len(ms) |->
           [text   |-> Slice(text, ms[i].start, ms[i].end),
            params |-> ToDict(FindAll(Slice(text, ms[i].start + Len(sig),
                                            ms[i].end - Len(SLASH_GT)))),
            type   |-> type]]
  IN  Entries(EntryMatchesFrom(0))

\* scan_warp_mmap; ScanWarpFrom is its while loop from offset pos on
scan_warp_mmap(mm, src) ==
  LET RECURSIVE ScanWarpFrom(_, _)
      ScanWarpFrom(pos, end_limit) ==
        LET Block(root_start, root_end, block_text, area, warp) ==
              <<[start      |-> root_start,
                 end        |-> root_end,
                 text       |-> block_text,
                 entries    |-> area \o warp,
                 block_type |-> IF warp # <<>>
                                  THEN (IF area = <<>> THEN "warp" ELSE "mixed")
                                  ELSE (IF area # <<>> THEN "area_change" ELSE "unknown"),
                 src        |-> src]>>
              \o ScanWarpFrom(root_end, end_limit)
            Text(root_start, root_end, block_text) ==
              Block(root_start, root_end, block_text,
                    WarpEntries(block_text, AREA_SIG, "area_change"),
                    WarpEntries(block_text, WARP_SIG, "warp"))
            Ended(root_start, found_end) ==
              IF root_start = -1 \/ root_start > end_limit \/ found_end = -1 THEN <<>>
              ELSE Text(root_start, found_end + Len(ROOT_END_SIG),
                        Decode(Slice(mm, root_start, found_end + Len(ROOT_END_SIG))))
            Started(root_start) ==
              Ended(root_start,
                    IF root_start = -1 THEN -1 ELSE Find(mm, ROOT_END_SIG, root_start))
        IN  IF ~(pos < end_limit) THEN <<>> ELSE Started(Find(mm, ROOT_START_SIG, pos))
  IN  ScanWarpFrom(WARP_START, Min({WARP_END + WARP_SLACK, Len(mm)}))

(***************************************************************************)
(* d04Injector.py: the edit forms and the text builders                    *)
(***************************************************************************)
\* the keys of build_smidata_ui's categories, in display order
CategoryKeys ==
  <<<<"c","8","C","o","d","e">>,
    <<"s","8","I","n","d","e","x">>,
    <<"u","8","E","n","a","b","l","e","d">>,
    <<"s","8","P","l","a","y","e","r","N","u","m">>,
    <<"s","3","2","R","a","t","i","n","g","_","0">>,
    <<"s","3","2","R","a","t","i","n","g","_","1">>,
    <<"s","3","2","R","a","t","i","n","g","_","2">>,
    <<"s","3","2","B","o","n","u","s","P","o","i","n","t">>,
    <<"s","1","6","B","o","n","u","s","C","a","t","e","g","o","r","y","R","a","t","e">>,
    <<"f","3","2","T","i","m","e">>,
    <<"s","3","2","S","h","o","o","t","i","n","g","S","t","a","r","T","i","m","e">>,
    <<"u","3","2","T","a","r","g","e","t">>,
    <<"f","3","2","D","i","s","p","S","c","a","l","e","C","o","e","f">>,
    <<"u","8","P","r","o","c">>,
    <<"u","8","E","t","e","r","n","a","l">>,
    <<"u","8","M","o","d","o","k","i">>,
    <<"u","8","B","o","n","u","s","C","a","t","e","g","o","r","y">>,
    <<"u","8","T","g","t","M","o","n","o","I","d","x">>,
    <<"s","8","2","d","S","c","a","l","e">>,
    <<"s","8","2","d","C","o","r","e">>,
    <<"s","8","2","d","O","u","j","i","B","a","s","e">>,
    <<"u","8","U","s","e","C","o","r","e">>,
    <<"u","8","V","i","e","w","C","o","r","e">>,
    <<"u","8","S","c","a","l","e","2","d">>,
    <<"u","8","F","o","g">>,
    <<"u","8","L","i","g","h","t">>,
    <<"u","8","A","c","c">>,
    <<"u","8","C","a","m","e","r","a">>,
    <<"s","8","C","r","u","m","b","l","e">>,
    <<"u","8","G","a","m","e","M","e","s","s","a","g","e">>,
    <<"u","8","L","e","c","t","u","r","e","M","e","s","s","a","g","e">>,
    <<"u","8","R","e","s","u","l","t","M","e","s","s","a","g","e">>,
    <<"u","8","M","a","p","S","c","r","i","p","t","_","0">>,
    <<"u","8","M","a","p","S","c","r","i","p","t","_","1">>,
    <<"u","8","M","a","p","S","c","r","i","p","t","_","2">>,
    <<"u","8","L","o","c","S","c","r","i","p","t","_","0">>,
    <<"u","8","L","o","c","S","c","r","i","p","t","_","1">>,
    <<"u","8","L","o","c","S","c","r","i","p","t","_","2">>,
    <<"u","8","O","v","e","r","r","i","d","e">>,
    <<"u","8","S","t","a","r">>,
    <<"u","8","N","e","t","w","o","r","k","R","a","n","k","i","n","g">>,
    <<"u","8","C","l","e","a","r","O","n","l","y","S","p","a","c","e">>,
    <<"s","8","P","r","e","s","e","n","t">>,
    <<"s","8","C","h","a","i","n","E","f","f">>,
    <<"s","8","S","n","o","w","F","l","o","w","e","r","E","f","f">>,
    <<"s","1","6","T","g","t","M","o","n","o">>,
    <<"s","1","6","C","o","r","e","I","n","i","t","I","D">>,
    <<"u","8","A","r","i","a","N","u","m">>,
    <<"s","1","6","M","o","n","o","M","d","l">>,
    <<"s","8","W","a","r","p">>,
    <<"s","8","A","r","e","a","C","h","a","n","g","e">>>>

\* the elements of a list that satisfy a test, in order
RECURSIVE SelectKeys(_, _)
SelectKeys(ks, present) ==
  IF ks = <<>> THEN <<>>
  ELSE (IF Head(ks) \in present THEN <<Head(ks)>> ELSE <<>>) \o SelectKeys(Tail(ks), present)

KeysOf(d) == [i \in 1..Len(d) |-> d[i].key]
Range(f) == {f[i] : i \in DOMAIN f}

\* smidata_entries after build_smidata_ui(block): one widget per parameter,
\* the categorised keys first, then the remaining ones in params order
build_smidata_ui(block) ==
  LET Widgets(params, order) ==
        [i \in 1..Len(order) |->
           [key |-> order[i], widget |-> DictGet(params, order[i]),
            orig |-> DictGet(params, order[i])]]
      Keys(params, keys) ==
        Widgets(params, SelectKeys(CategoryKeys, Range(keys))
                          \o SelectKeys(keys, Range(keys) \ Range(CategoryKeys)))
  IN  Keys(block.params, KeysOf(block.params))

\* new_val padded with spaces or cut to the length of orig_val
FitTo(new_val, orig_val) ==
  IF Len(new_val) < Len(orig_val) THEN new_val \o Spaces(Len(orig_val) - Len(new_val))
  ELSE Slice(new_val, 0, Len(orig_val))

\* build_smidata_text; SmidataFold is its loop over the entries left
build_smidata_text(block, entries) ==
  LET RECURSIVE SmidataFold(_, _)
      SmidataFold(text, left) ==
        LET Put(e) == SmidataFold(SubValue(text, e.key, FitTo(e.widget, e.orig)), Tail(left))
        IN  IF left = <<>> THEN text ELSE Put(Head(left))
  IN  SmidataFold(block.text, entries)

\* lighting_entries after build_lighting_ui(params): a dict key -> list of
\* [widget, orig], one per whitespace-separated part of the value
RECURSIVE build_lighting_ui(_)
build_lighting_ui(params) ==
  LET Add(item, rest) ==
        IF item.key = K_Stage THEN rest
        ELSE DictSet(rest, item.key,
                     [j \in 1..Len(item.parts) |->
                        [widget |-> item.parts[j], orig |-> item.parts[j]]])
  IN  IF params = <<>> THEN <<>>
      ELSE Add(params[Len(params)], build_lighting_ui(SubSeq(params, 1, Len(params) - 1)))

\* enforce_length(orig, val)
enforce_length(orig, val) ==
  LET Cut(s) ==
        Slice(IF Len(s) < Len(orig) THEN s \o [i \in 1..(Len(orig) - Len(s)) |-> "0"] ELSE s,
              0, Len(orig))
  IN  Cut(FormatFixed(val, 6))

\* build_lighting_text; LightingFold is its loop over the params left and
\* LightingPart the text of one part
build_lighting_text(block, entries) ==
  LET LightingPart(e) ==
        LET Part(f) == IF f.ok THEN enforce_length(e.orig, f.val) ELSE e.orig
        IN  Part(Float(e.widget))
      RECURSIVE LightingFold(_, _)
      LightingFold(text, params) ==
        LET Parts(key, ents) ==
              LightingFold(SubValue(text, key,
                                    Join(<<" ">>,
                                         [j \in 1..Len(ents) |-> LightingPart(ents[j])])),
                           Tail(params))
            Param(key) ==
              IF key = K_Stage THEN LightingFold(text, Tail(params))
              ELSE Parts(key, DictGet(entries, key))
        IN  IF params = <<>> THEN text ELSE Param(Head(params).key)
  IN  LightingFold(block.text, block.params)

RAW_KEY == <<"_","r","a","w","_","t","e","x","t">>

\* one widget of the warp form; its dict key is f"{idx}_{key}" or
\* f"{idx}_{key}_{part}" (part = -1 when the key has no part suffix)
WarpWidget(idx, key, part, val) ==
  [idx |-> idx, key |-> key, part |-> part, widget |-> val, orig |-> val]

PlainWidgets(i, params, keys) ==
  LET Widgets(ks) == [n \in 1..Len(ks) |-> WarpWidget(i, ks[n], -1, DictGet(params, ks[n]))]
  IN  Widgets(SelectKeys(keys, Range(KeysOf(params))))

\* the widgets made from the first `most` parts of a multi-part value
PartWidgets(i, params, key, most) ==
  LET Widgets(parts) ==
        [j \in 1..(IF Len(parts) < most THEN Len(parts) ELSE most) |->
           WarpWidget(i, key, j - 1, parts[j])]
  IN  IF ~HasKey(params, key) THEN <<>> ELSE Widgets(Split(DictGet(params, key)))

\* warp_entries after build_warp_ui(block); WarpUiFrom is its loop over
\* the entries from entry i on.  AreaChangeKeys: the keys
\* _build_area_change_entry makes a widget for, in order; WarpKeysBeforeFade
\* and WarpKeysAfterFade: the keys _build_warp_entry makes a widget for
\* between fvPosi and f32FadeColor and after f32FadeColor
build_warp_ui(block) ==
  LET AreaChangeKeys ==
        <<<<"s","3","2","C","o","r","e","S","i","z","e">>,
          <<"s","3","2","D","e","l","e","t","e","S","t","a","r","t","S","i","z","e","0">>,
          <<"s","3","2","D","e","l","e","t","e","S","t","a","r","t","S","i","z","e">>,
          <<"s","3","2","D","e","l","e","t","e","M","o","n","o","S","i","z","e">>,
          <<"s","8","C","o","r","e","I","D">>,
          <<"s","1","6","M","d","l">>,
          <<"s","1","6","D","e","l","e","t","e","M","a","p">>,
          <<"s","1","6","M","a","p">>,
          <<"s","1","6","L","o","c">>,
          <<"s","8","W","a","r","p","I","D">>,
          <<"s","8","C","h","a","n","g","e","T","y","p","e">>,
          <<"s","8","F","o","g","I","D">>>>
      WarpKeysBeforeFade ==
        <<<<"s","1","6","I","n","D","i","r">>,
          <<"s","1","6","O","u","t","D","i","r">>,
          <<"s","1","6","O","u","t","S","t","a","g","e">>,
          <<"s","8","O","u","t","S","t","a","g","e","F","l","a","g">>>>
      WarpKeysAfterFade ==
        <<<<"s","3","2","C","o","r","e","S","i","z","e">>,
          <<"s","8","S","y","n","c","A","r","e","a","C","h","a","n","g","e">>>>
      RECURSIVE WarpUiFrom(_, _)
      WarpUiFrom(entries, i) ==
        LET Entry(type, params) ==
              IF /\ type = "area_change"
                 /\ HasKey(params, K_s32CoreSize)
                 /\ DictGet(params, K_s32CoreSize) = <<"-","1">>
                THEN <<>>
              ELSE IF type = "area_change"
                THEN PlainWidgets(i, params, AreaChangeKeys)
              ELSE PartWidgets(i, params, K_fvPosi, 3)
                     \o PlainWidgets(i, params, WarpKeysBeforeFade)
                     \o PartWidgets(i, params, K_f32FadeColor, 4)
                     \o PlainWidgets(i, params, WarpKeysAfterFade)
        IN  IF i >= Len(entries) THEN <<>>
            ELSE Entry(entries[i + 1].type, entries[i + 1].params)
                   \o WarpUiFrom(entries, i + 1)
  IN  IF block.entries # <<>> THEN WarpUiFrom(block.entries, 0)
      ELSE <<WarpWidget(-1, RAW_KEY, -1, block.text)>>

HasWidget(ws, i, key, part) ==
  \E n \in 1..Len(ws) : ws[n].idx = i /\ ws[n].key = key /\ ws[n].part = part
GetWidget(ws, i, key, part) ==
  ws[CHOOSE n \in 1..Len(ws) : ws[n].idx = i /\ ws[n].key = key /\ ws[n].part = part]

\* s.replace(old, new): every non-overlapping occurrence, left to right
RECURSIVE ReplaceAll(_, _, _)
ReplaceAll(s, old, new) ==
  LET At(at) ==
        IF at = -1 THEN s
        ELSE Slice(s, 0, at) \o new \o ReplaceAll(From(s, at + Len(old)), old, new)
  IN  At(IF old = <<>> THEN -1 ELSE Find(s, old, 0))

\* s.rstrip('\n')
RStripNL(s) ==
  LET ks == {i \in 1..Len(s) : s[i] # "\n"}
  IN  IF ks = {} THEN <<>> ELSE SubSeq(s, 1, Max(ks))

\* the multi-part value (fvPosi, f32FadeColor) of entry i written back
PartsEdit(text, ws, i, entry, key, count) ==
  LET Put(parts, orig) ==
        IF Len(parts) # count THEN text
        ELSE SubValue(text, key, FitTo(Join(<<" ">>, parts), orig))
      Parts(js) ==
        Put([n \in 1..Len(js) |-> GetWidget(ws, i, key, js[n]).widget],
            IF HasKey(entry.params, key) THEN DictGet(entry.params, key) ELSE <<>>)
  IN  IF ~HasWidget(ws, i, key, 0) THEN text
      ELSE Parts(SelectKeys([j \in 1..count |-> j - 1],
                            {j \in 0..(count - 1) : HasWidget(ws, i, key, j)}))

\* the new text of entry i in build_warp_text; PlainEdits is the loop over
\* the entry's params that writes the single-valued widgets back
NewEntryText(ws, i, entry) ==
  LET RECURSIVE PlainEdits(_, _)
      PlainEdits(text, keys) ==
        LET Put(key, w) ==
              PlainEdits(SubValue(text, key, FitTo(w.widget, w.orig)), Tail(keys))
            Key(key) ==
              IF key \in {K_fvPosi, K_f32FadeColor} \/ ~HasWidget(ws, i, key, -1)
                THEN PlainEdits(text, Tail(keys))
                ELSE Put(key, GetWidget(ws, i, key, -1))
        IN  IF keys = <<>> THEN text ELSE Key(Head(keys))
  IN  PlainEdits(PartsEdit(PartsEdit(entry.text, ws, i, entry, K_fvPosi, 3),
                           ws, i, entry, K_f32FadeColor, 4),
                 KeysOf(entry.params))

\* build_warp_text(block): the returned text and block["entries"]
\* afterwards.  WarpFold is its loop from entry i on: the text so far and
\* the entries, whose "text" the loop overwrites as it goes
build_warp_text(block, ws) ==
  LET RECURSIVE WarpFold(_, _, _)
      WarpFold(text, entries, i) ==
        LET Put(old_text, new_entry_text) ==
              WarpFold(ReplaceAll(text, old_text, new_entry_text),
                       [entries EXCEPT ![i + 1].text = new_entry_text], i + 1)
        IN  IF i >= Len(entries) THEN [text |-> text, entries |-> entries]
            ELSE Put(entries[i + 1].text, NewEntryText(ws, i, entries[i + 1]))
  IN  IF HasWidget(ws, -1, RAW_KEY, -1)
        THEN [text |-> RStripNL(GetWidget(ws, -1, RAW_KEY, -1).widget),
              entries |-> block.entries]
        ELSE WarpFold(block.text, block.entries, 0)

(***************************************************************************)
(* d04Injector.py: state of KatamariDatEditor                              *)
(***************************************************************************)
MaxScans == 1       \* Scan All clicks
MaxTabs == 1        \* changes of the notebook tab
MaxEdits == 1       \* widget edits
MaxInjects == 1     \* inject button clicks
MaxExports == 1     \* export button clicks

\* what the user can type into a widget
EditValues == {<<"7">>, <<"4","2","0">>, <<"E9">>}


VARIABLES
  disk,                    \* path -> bytes of the file
  dat_path,                \* self.dat_path (NoPath for None)
  btn_scan,                \* state of the Scan All button
  workers,                 \* the scan_all_worker threads started so far
  after_queue,             \* finish_scan calls posted with root.after
  tab,                     \* the notebook tab that is shown
  level_offsets, level_rows, level_sel, pad_mode,
  smidata_blocks, smidata_combo, current_smidata_block, smidata_entries,
  lighting_blocks, stage_combo, stage_var, current_lighting_block, lighting_entries,
  warp_blocks, warp_combo, current_warp_block, warp_entries,
  last,                    \* history: the last inject / export attempt
  used                     \* history: how many of each bounded input were used

dat_vars ==
  <<disk, dat_path, btn_scan, workers, after_queue, tab,
    level_offsets, level_rows, level_sel, pad_mode,
    smidata_blocks, smidata_combo, current_smidata_block, smidata_entries,
    lighting_blocks, stage_combo, stage_var, current_lighting_block, lighting_entries,
    warp_blocks, warp_combo, current_warp_block, warp_entries, last, used>>

\* the state of the entity editor (kata.py)
VARIABLES
  entities,          \* list of entity records (see _parse_block)
  file_sequence,     \* list of items [ent, str]: entity entities[ent] (the same
                     \* object), or the string str when ent = -1
  display_mapping,   \* entity indices shown in the entity list box, row by row
  selected_indices,
  is_updating_ui,
  dirty_fields,
  offset_mode,
  pos_vars,          \* the three position variables
  rot_vars,          \* the four rotation variables
  entry,             \* contents of the entry widgets, by field
  planes,            \* list of [name, coeffs, auto]
  plane_listbox,     \* [rows, sel]: the names shown and the selected row or -1
  slice_axis,
  hist,              \* history: the text loaded last, the entities' raw texts
                     \* at that load and whether each was read inside a <child>
                     \* block, the bytes saved since and whether a save ran
  mused              \* how often each kind of handler ran

map_vars ==
  <<entities, file_sequence, display_mapping, selected_indices, is_updating_ui, dirty_fields,
    offset_mode, pos_vars, rot_vars, entry, planes, plane_listbox, slice_axis, hist, mused>>

level_vars == <<level_offsets, level_rows, level_sel, pad_mode>>
smidata_vars == <<smidata_blocks, smidata_combo, current_smidata_block, smidata_entries>>
lighting_vars ==
  <<lighting_blocks, stage_combo, stage_var, current_lighting_block, lighting_entries>>
warp_vars == <<warp_blocks, warp_combo, current_warp_block, warp_entries>>
scan_vars == <<btn_scan, workers, after_queue>>

NoLast ==
  [op |-> "none", result |-> "none", path |-> NoPath, before |-> <<>>,
   start |-> 0, slot |-> 0, text |-> <<>>, data |-> <<>>, asked |-> FALSE, yes |-> FALSE,
   src |-> [path |-> NoPath, scan |-> 0]]

\* an attempt that ended before any slot was picked
NoSlot(op, result) == [NoLast EXCEPT !.op = op, !.result = result]

\* an attempt on the slot [start, start + slot) of the file at path; out is
\* [result, text, data, asked] and yes the answer to the confirmation
Attempt(op, path, src, start, slot, out, yes) ==
  [op |-> op, result |-> out.result, path |-> path, before |-> disk[path],
   start |-> start, slot |-> slot, text |-> out.text, data |-> out.data,
   asked |-> out.asked, yes |-> out.asked /\ yes, src |-> src]

\* the window after __init__, before any file is chosen
WindowInit ==
  /\ dat_path = NoPath
  /\ btn_scan = "disabled"
  /\ workers = <<>>
  /\ after_queue = 0
  /\ tab = "levels"
  /\ level_offsets = <<>> /\ level_rows = 0 /\ level_sel = -1 /\ pad_mode = "spaces_end"
  /\ smidata_blocks = <<>> /\ smidata_combo = [n |-> 0, cur |-> -1]
  /\ current_smidata_block = <<>> /\ smidata_entries = <<>>
  /\ lighting_blocks = <<>> /\ stage_combo = [values |-> <<>>, cur |-> -1] /\ stage_var = <<>>
  /\ current_lighting_block = <<>> /\ lighting_entries = <<>>
  /\ warp_blocks = <<>> /\ warp_combo = [n |-> 0, cur |-> -1]
  /\ current_warp_block = <<>> /\ warp_entries = <<>>
  /\ last = NoLast
  /\ used = [tabs |-> 0, edits |-> 0, injects |-> 0, exports |-> 0]

DatInit == disk = InitialDisk /\ WindowInit

Use(what) == used' = [used EXCEPT ![what] = @ + 1]

(***************************************************************************)
(* File loading and the scan thread                                        *)
(***************************************************************************)
load_dat_file(path) ==
  /\ dat_path # path \/ btn_scan # "normal"
  /\ dat_path' = path
  /\ btn_scan' = "normal"
  /\ UNCHANGED <<map_vars, disk, workers, after_queue, tab, level_vars, smidata_vars, lighting_vars,
                 warp_vars, last, used>>

\* the user shows another tab of the notebook
select_tab(t) ==
  /\ used.tabs < MaxTabs
  /\ t # tab
  /\ tab' = t
  /\ Use("tabs")
  /\ UNCHANGED <<map_vars, disk, dat_path, scan_vars, level_vars, smidata_vars, lighting_vars,
                 warp_vars, last>>

\* the Scan All button, which only an enabled button passes on; cap bounds
\* the number of worker threads started
start_scan_thread(cap) ==
  /\ btn_scan = "normal"
  /\ Len(workers) < cap
  /\ btn_scan' = "disabled"
  /\ workers' = Append(workers, [pc |-> "open", path |-> NoPath])
  /\ UNCHANGED <<map_vars, disk, dat_path, after_queue, tab, level_vars, smidata_vars, lighting_vars,
                 warp_vars, last, used>>

\* scan_all_worker: open(self.dat_path) and map it
WorkerOpen(w) ==
  /\ workers[w].pc = "open"
  /\ workers' = [workers EXCEPT ![w] = [pc |-> "levels", path |-> dat_path]]
  /\ UNCHANGED <<map_vars, disk, dat_path, tab, btn_scan, after_queue, level_vars, smidata_vars,
                 lighting_vars, warp_vars, last, used>>

Src(w) == [path |-> workers[w].path, scan |-> w]

WorkerScanLevels(w) ==
  /\ workers[w].pc = "levels"
  /\ level_offsets' = scan_levels_mmap(disk[workers[w].path], Src(w))
  /\ workers' = [workers EXCEPT ![w].pc = "smidata"]
  /\ UNCHANGED <<map_vars, disk, dat_path, tab, btn_scan, after_queue, level_rows, level_sel, pad_mode,
                 smidata_vars, lighting_vars, warp_vars, last, used>>

WorkerScanSmidata(w) ==
  /\ workers[w].pc = "smidata"
  /\ smidata_blocks' = scan_smidata_mmap(disk[workers[w].path], Src(w))
  /\ workers' = [workers EXCEPT ![w].pc = "lighting"]
  /\ UNCHANGED <<map_vars, disk, dat_path, tab, btn_scan, after_queue, level_vars, smidata_combo,
                 current_smidata_block, smidata_entries, lighting_vars, warp_vars, last, used>>

WorkerScanLighting(w) ==
  /\ workers[w].pc = "lighting"
  /\ lighting_blocks' = scan_lighting_mmap(disk[workers[w].path], Src(w))
  /\ workers' = [workers EXCEPT ![w].pc = "warp"]
  /\ UNCHANGED <<map_vars, disk, dat_path, tab, btn_scan, after_queue, level_vars, smidata_vars, stage_combo,
                 stage_var, current_lighting_block, lighting_entries, warp_vars, last, used>>

\* the last scan, then self.root.after(0, self.finish_scan)
WorkerScanWarp(w) ==
  /\ workers[w].pc = "warp"
  /\ warp_blocks' = scan_warp_mmap(disk[workers[w].path], Src(w))
  /\ workers' = [workers EXCEPT ![w].pc = "done"]
  /\ after_queue' = after_queue + 1
  /\ UNCHANGED <<map_vars, disk, dat_path, tab, btn_scan, level_vars, smidata_vars, lighting_vars,
                 warp_combo, current_warp_block, warp_entries, last, used>>

\* next((b for b in blocks if b["stage"] == name), None), as a list of 0 or 1
FirstWithStage(blocks, name) ==
  LET First(c) == IF c = {} THEN <<>> ELSE <<blocks[Min(c)]>>
  IN  First({i \in 1..Len(blocks) : blocks[i].stage = name})

\* the effect of on_stage_change once stage_var holds name
StageChanged(name) ==
  LET Found(b) ==
        /\ current_lighting_block' = b
        /\ lighting_entries' =
             IF b = <<>> THEN lighting_entries ELSE build_lighting_ui(b[1].params)
  IN  /\ stage_var' = name
      /\ Found(FirstWithStage(lighting_blocks, name))

\* the effect of on_smidata_change when the combo shows row idx
SmidataChanged(idx) ==
  IF idx < 0 \/ idx >= Len(smidata_blocks)
    THEN UNCHANGED <<current_smidata_block, smidata_entries>>
    ELSE /\ current_smidata_block' = <<smidata_blocks[idx + 1]>>
         /\ smidata_entries' = build_smidata_ui(smidata_blocks[idx + 1])

\* the effect of on_warp_change when the combo shows row idx
WarpChanged(idx) ==
  IF idx < 0 \/ idx >= Len(warp_blocks)
    THEN UNCHANGED <<current_warp_block, warp_entries>>
    ELSE /\ current_warp_block' = <<warp_blocks[idx + 1]>>
         /\ warp_entries' = build_warp_ui(warp_blocks[idx + 1])

finish_scan ==
  /\ after_queue > 0
  /\ after_queue' = after_queue - 1
  /\ btn_scan' = "normal"
  /\ level_rows' = Len(level_offsets)
  /\ level_sel' = -1
  /\ stage_combo' = [values |-> [i \in 1..Len(lighting_blocks) |-> lighting_blocks[i].stage],
                     cur |-> IF lighting_blocks # <<>> THEN 0 ELSE -1]
  /\ IF lighting_blocks # <<>> THEN StageChanged(lighting_blocks[1].stage)
     ELSE UNCHANGED <<stage_var, current_lighting_block, lighting_entries>>
  /\ smidata_combo' = [n |-> Len(smidata_blocks),
                       cur |-> IF smidata_blocks # <<>> THEN 0 ELSE -1]
  /\ IF smidata_blocks # <<>> THEN SmidataChanged(0)
     ELSE UNCHANGED <<current_smidata_block, smidata_entries>>
  /\ warp_combo' = [n |-> Len(warp_blocks), cur |-> IF warp_blocks # <<>> THEN 0 ELSE -1]
  /\ IF warp_blocks # <<>> THEN WarpChanged(0)
     ELSE UNCHANGED <<current_warp_block, warp_entries>>
  /\ UNCHANGED <<map_vars, disk, dat_path, tab, workers, level_offsets, pad_mode, smidata_blocks,
                 lighting_blocks, warp_blocks, last, used>>

(***************************************************************************)
(* Level operations                                                        *)
(***************************************************************************)
\* the user clicks row idx of the level list (on_level_select only shows it)
on_level_select(idx) ==
  /\ tab = "levels"
  /\ idx \in 0..(level_rows - 1)
  /\ idx # level_sel
  /\ level_sel' = idx
  /\ UNCHANGED <<map_vars, disk, dat_path, scan_vars, tab, level_offsets, level_rows, pad_mode,
                 smidata_vars, lighting_vars, warp_vars, last, used>>

\* the padding-mode radio buttons
set_pad_mode(mode) ==
  /\ tab = "levels"
  /\ mode # pad_mode
  /\ pad_mode' = mode
  /\ UNCHANGED <<map_vars, disk, dat_path, scan_vars, tab, level_offsets, level_rows, level_sel,
                 smidata_vars, lighting_vars, warp_vars, last, used>>

\* variant: one space too few
PadLevelShort(new_content, original_length, mode) ==
  IF ~(Len(new_content) < original_length) THEN new_content
  ELSE new_content \o Spaces(original_length - Len(new_content) - 1)

\* the "Pad if needed" step of inject_level
PadLevel(new_content, original_length, mode) ==
  LET Pad(diff, end_pos) ==
        IF mode = "spaces_end" /\ end_pos # -1
          THEN Slice(new_content, 0, end_pos) \o Spaces(diff) \o From(new_content, end_pos)
          ELSE new_content \o Spaces(diff)
  IN  IF ~(Len(new_content) < original_length) THEN new_content
      ELSE Pad(original_length - Len(new_content), RFind(new_content, END_TAG))

\* variant: no length checks before the confirmation
LevelOutcomeUnchecked(info, source, yes) ==
  [result |-> IF yes THEN "written" ELSE "declined", text |-> source, data |-> source,
   asked |-> TRUE]

\* what inject_level does with the chosen source: the result, the bytes to
\* write and whether the confirmation dialog was shown
LevelOutcome(info, source, yes) ==
  LET O(padded, r, asked) ==
        [result |-> r, text |-> source, data |-> padded, asked |-> asked]
      Padded(padded) ==
        IF Len(source) > info.content_length THEN O(padded, "too_long", FALSE)
        ELSE IF Len(padded) # info.content_length THEN O(padded, "mismatch", FALSE)
        ELSE IF ~yes THEN O(padded, "declined", TRUE)
        ELSE O(padded, "written", TRUE)
  IN  Padded(PadLevel(source, info.content_length, pad_mode))

\* variant: the write is also reached when the confirmation was declined
WrittenUnasked(out, start) ==
  IF out.result \in {"written", "declined"}
    THEN [disk EXCEPT ![dat_path] = WriteAt(@, start, out.data)]
  ELSE disk

\* with open(self.dat_path, 'r+b') as f: f.seek(start); f.write(data),
\* which only an attempt that was confirmed reaches
Written(out, start) ==
  IF out.result = "written" THEN [disk EXCEPT ![dat_path] = WriteAt(@, start, out.data)]
  ELSE disk

\* inject_level: cancelled = the file dialog was closed, source = the bytes
\* of the chosen file, yes = the answer to the confirmation
inject_level(cancelled, source, yes) ==
  LET Do(info, out) ==
        /\ last' = Attempt("inject_level", dat_path, info.src, info.content_start,
                           info.content_length, out, yes)
        /\ disk' = Written(out, info.content_start)
      Slot(info) == Do(info, LevelOutcome(info, source, yes))
  IN  /\ tab = "levels"
      /\ used.injects < MaxInjects
      /\ Use("injects")
      /\ IF level_sel = -1 \/ level_offsets = <<>>
           THEN last' = NoSlot("inject_level", "nosel") /\ UNCHANGED disk
         ELSE IF level_sel >= Len(level_offsets)            \* IndexError
           THEN last' = NoSlot("inject_level", "error") /\ UNCHANGED disk
         ELSE IF cancelled
           THEN last' = NoSlot("inject_level", "cancel") /\ UNCHANGED disk
         ELSE Slot(level_offsets[level_sel + 1])
      /\ UNCHANGED <<map_vars, dat_path, scan_vars, tab, level_vars, smidata_vars, lighting_vars,
                     warp_vars>>

(***************************************************************************)
(* SMiData (level parameters) operations                                   *)
(***************************************************************************)
SameObj(a, b) == a.src = b.src /\ a.start = b.start

\* block["text"] = text, seen through every reference to the block object
SetText(blocks, block, text) ==
  [i \in 1..Len(blocks) |->
     IF SameObj(blocks[i], block) THEN [blocks[i] EXCEPT !.text = text] ELSE blocks[i]]

\* the user picks row idx of the combo box
on_smidata_change(idx) ==
  /\ tab = "params"
  /\ idx \in 0..(smidata_combo.n - 1)
  /\ smidata_combo' = [smidata_combo EXCEPT !.cur = idx]
  /\ SmidataChanged(idx)
  /\ UNCHANGED <<map_vars, disk, dat_path, scan_vars, tab, level_vars, smidata_blocks, lighting_vars,
                 warp_vars, last, used>>

\* the user replaces the content of the n-th entry widget by v
edit_smidata(n, v) ==
  /\ tab = "params"
  /\ used.edits < MaxEdits
  /\ n \in 1..Len(smidata_entries)
  /\ smidata_entries[n].widget # v
  /\ smidata_entries' = [smidata_entries EXCEPT ![n].widget = v]
  /\ Use("edits")
  /\ UNCHANGED <<map_vars, disk, dat_path, scan_vars, tab, level_vars, smidata_blocks, smidata_combo,
                 current_smidata_block, lighting_vars, warp_vars, last>>

\* variant: the built text is written as it is, without padding or checks
SmidataOutcomeUnpadded(block, entries, yes) ==
  [result |-> IF yes THEN "written" ELSE "declined",
   text   |-> build_smidata_text(block, entries),
   data   |-> Encode(build_smidata_text(block, entries)),
   asked  |-> TRUE]

SmidataOutcome(block, entries, yes) ==
  LET O(new_text, r, asked) ==
        [result |-> r, text |-> new_text, data |-> Encode(new_text), asked |-> asked]
      Check(orig_len, diff, new_text) ==
        IF diff < 0 THEN O(new_text, "too_long", FALSE)
        ELSE IF Len(Encode(new_text)) # orig_len THEN O(new_text, "mismatch", FALSE)
        ELSE IF ~yes THEN O(new_text, "declined", TRUE)
        ELSE O(new_text, "written", TRUE)
      Pad(orig_len, built, diff) ==
        Check(orig_len, diff,
              IF diff > 0
                THEN PySlice(built, 0, -2) \o Spaces(diff) \o PySlice(built, -2, Len(built))
                ELSE built)
      Built(orig_len, built) == Pad(orig_len, built, orig_len - Len(Encode(built)))
  IN  Built(block.end - block.start, build_smidata_text(block, entries))

inject_smidata_block(yes) ==
  LET Do(block, out) ==
        /\ last' = Attempt("inject_smidata_block", dat_path, block.src, block.start,
                           block.end - block.start, out, yes)
        /\ disk' = Written(out, block.start)
        /\ smidata_blocks' =
             IF out.result = "written" THEN SetText(smidata_blocks, block, out.text)
             ELSE smidata_blocks
        /\ current_smidata_block' =
             IF out.result = "written" THEN SetText(current_smidata_block, block, out.text)
             ELSE current_smidata_block
      Block(block) == Do(block, SmidataOutcome(block, smidata_entries, yes))
  IN  /\ tab = "params"
      /\ used.injects < MaxInjects
      /\ Use("injects")
      /\ IF current_smidata_block = <<>> \/ dat_path = NoPath
           THEN /\ last' = NoSlot("inject_smidata_block", "nosel")
                /\ UNCHANGED <<disk, smidata_blocks, current_smidata_block>>
           ELSE Block(current_smidata_block[1])
      /\ UNCHANGED <<map_vars, dat_path, scan_vars, tab, level_vars, smidata_combo, smidata_entries,
                     lighting_vars, warp_vars>>

(***************************************************************************)
(* Lighting operations                                                     *)
(***************************************************************************)
\* the user picks row i of the stage combo box: stage_var takes its text
on_stage_change(i) ==
  /\ tab = "lighting"
  /\ i \in 1..Len(stage_combo.values)
  /\ stage_combo' = [stage_combo EXCEPT !.cur = i - 1]
  /\ StageChanged(stage_combo.values[i])
  /\ UNCHANGED <<map_vars, disk, dat_path, scan_vars, tab, level_vars, smidata_vars, lighting_blocks,
                 warp_vars, last, used>>

\* the user replaces the content of part j of the n-th parameter by v
edit_lighting(n, j, v) ==
  /\ tab = "lighting"
  /\ used.edits < MaxEdits
  /\ n \in 1..Len(lighting_entries)
  /\ j \in 1..Len(lighting_entries[n].val)
  /\ lighting_entries[n].val[j].widget # v
  /\ lighting_entries' = [lighting_entries EXCEPT ![n].val[j].widget = v]
  /\ Use("edits")
  /\ UNCHANGED <<map_vars, disk, dat_path, scan_vars, tab, level_vars, smidata_vars, lighting_blocks,
                 stage_combo, stage_var, current_lighting_block, warp_vars, last>>

LightingOutcome(block, entries, yes) ==
  LET O(new_text, r, asked) ==
        [result |-> r, text |-> new_text, data |-> Encode(new_text), asked |-> asked]
      Built(new_text) ==
        IF Len(Encode(new_text)) # block.end - block.start THEN O(new_text, "mismatch", FALSE)
        ELSE IF ~yes THEN O(new_text, "declined", TRUE)
        ELSE O(new_text, "written", TRUE)
  IN  Built(build_lighting_text(block, entries))

inject_lighting_block(yes) ==
  LET Do(block, out) ==
        /\ last' = Attempt("inject_lighting_block", dat_path, block.src, block.start,
                           block.end - block.start, out, yes)
        /\ disk' = Written(out, block.start)
        /\ lighting_blocks' =
             IF out.result = "written" THEN SetText(lighting_blocks, block, out.text)
             ELSE lighting_blocks
        /\ current_lighting_block' =
             IF out.result = "written" THEN SetText(current_lighting_block, block, out.text)
             ELSE current_lighting_block
      Block(block) == Do(block, LightingOutcome(block, lighting_entries, yes))
  IN  /\ tab = "lighting"
      /\ used.injects < MaxInjects
      /\ Use("injects")
      /\ IF current_lighting_block = <<>>
           THEN /\ last' = NoSlot("inject_lighting_block", "nosel")
                /\ UNCHANGED <<disk, lighting_blocks, current_lighting_block>>
           ELSE Block(current_lighting_block[1])
      /\ UNCHANGED <<map_vars, dat_path, scan_vars, tab, level_vars, smidata_vars, stage_combo,
                     stage_var, lighting_entries, warp_vars>>

(***************************************************************************)
(* Warp operations                                                         *)
(***************************************************************************)
on_warp_change(idx) ==
  /\ tab = "warp"
  /\ idx \in 0..(warp_combo.n - 1)
  /\ warp_combo' = [warp_combo EXCEPT !.cur = idx]
  /\ WarpChanged(idx)
  /\ UNCHANGED <<map_vars, disk, dat_path, scan_vars, tab, level_vars, smidata_vars, lighting_vars,
                 warp_blocks, last, used>>

\* the user replaces the content of the n-th widget by v, or in the raw
\* text box also types v at the end
edit_warp(n, v, append) ==
  LET Type(new) ==
        /\ warp_entries[n].widget # new
        /\ warp_entries' = [warp_entries EXCEPT ![n].widget = new]
  IN  /\ tab = "warp"
      /\ used.edits < MaxEdits
      /\ n \in 1..Len(warp_entries)
      /\ append => warp_entries[n].key = RAW_KEY
      /\ Type(IF append THEN warp_entries[n].widget \o v ELSE v)
      /\ Use("edits")
      /\ UNCHANGED <<map_vars, disk, dat_path, scan_vars, tab, level_vars, smidata_vars, lighting_vars,
                     warp_blocks, warp_combo, current_warp_block, last>>

\* entry["text"] = new_entry_text for every entry, seen through every
\* reference to the block object
SetEntries(blocks, block, entries) ==
  [i \in 1..Len(blocks) |->
     IF SameObj(blocks[i], block) THEN [blocks[i] EXCEPT !.entries = entries] ELSE blocks[i]]

\* what inject_warp_block does with the text build_warp_text returned
WarpOutcome(block, new_text, yes) ==
  LET O(new_bytes, r, asked) ==
        [result |-> r, text |-> new_text, data |-> new_bytes, asked |-> asked]
      Check(orig_len, diff, new_bytes) ==
        IF diff < 0 THEN O(new_bytes, "too_long", FALSE)
        ELSE IF Len(new_bytes) # orig_len THEN O(new_bytes, "mismatch", FALSE)
        ELSE IF ~yes THEN O(new_bytes, "declined", TRUE)
        ELSE O(new_bytes, "written", TRUE)
      Pad(orig_len, bytes, diff) ==
        Check(orig_len, diff, IF diff > 0 THEN bytes \o Spaces(diff) ELSE bytes)
      Bytes(orig_len, bytes) == Pad(orig_len, bytes, orig_len - Len(bytes))
  IN  Bytes(block.end - block.start, Encode(new_text))

export_warp_block ==
  LET Do(block, built) ==
        /\ last' = [NoSlot("export_warp_block", "exported") EXCEPT !.text = built.text]
        /\ warp_blocks' = SetEntries(warp_blocks, block, built.entries)
        /\ current_warp_block' = SetEntries(current_warp_block, block, built.entries)
      Block(block) == Do(block, build_warp_text(block, warp_entries))
  IN  /\ tab = "warp"
      /\ used.exports < MaxExports
      /\ Use("exports")
      /\ IF current_warp_block = <<>>
           THEN /\ last' = NoSlot("export_warp_block", "nosel")
                /\ UNCHANGED <<warp_blocks, current_warp_block>>
           ELSE Block(current_warp_block[1])
      /\ UNCHANGED <<map_vars, disk, dat_path, scan_vars, tab, level_vars, smidata_vars, lighting_vars,
                     warp_combo, warp_entries>>

inject_warp_block(yes) ==
  LET Do(block, entries, out) ==
        /\ last' = Attempt("inject_warp_block", dat_path, block.src, block.start,
                           block.end - block.start, out, yes)
        /\ disk' = Written(out, block.start)
        /\ warp_blocks' =
             IF out.result = "written"
               THEN SetText(SetEntries(warp_blocks, block, entries), block, out.text)
               ELSE SetEntries(warp_blocks, block, entries)
        /\ current_warp_block' =
             IF out.result = "written"
               THEN SetText(SetEntries(current_warp_block, block, entries), block, out.text)
               ELSE SetEntries(current_warp_block, block, entries)
      Built(block, built) == Do(block, built.entries, WarpOutcome(block, built.text, yes))
      Block(block) == Built(block, build_warp_text(block, warp_entries))
  IN  /\ tab = "warp"
      /\ used.injects < MaxInjects
      /\ Use("injects")
      /\ IF current_warp_block = <<>> \/ dat_path = NoPath
           THEN /\ last' = NoSlot("inject_warp_block", "nosel")
                /\ UNCHANGED <<disk, warp_blocks, current_warp_block>>
           ELSE Block(current_warp_block[1])
      /\ UNCHANGED <<map_vars, dat_path, scan_vars, tab, level_vars, smidata_vars, lighting_vars,
                     warp_combo, warp_entries>>

(***************************************************************************)
(* The injector as a state machine                                         *)
(***************************************************************************)
DatNext ==
  \/ \E path \in Paths : load_dat_file(path)
  \/ \E t \in {"levels", "params", "lighting", "warp"} : select_tab(t)
  \/ start_scan_thread(MaxScans)
  \/ \E w \in DOMAIN workers : WorkerOpen(w)
  \/ \E w \in DOMAIN workers : WorkerScanLevels(w)
  \/ \E w \in DOMAIN workers : WorkerScanSmidata(w)
  \/ \E w \in DOMAIN workers : WorkerScanLighting(w)
  \/ \E w \in DOMAIN workers : WorkerScanWarp(w)
  \/ finish_scan
  \/ \E idx \in 0..(level_rows - 1) : on_level_select(idx)
  \/ \E mode \in {"spaces_end", "spaces_tail"} : set_pad_mode(mode)
  \/ \E cancelled \in BOOLEAN, yes \in BOOLEAN,
        source \in {<<"x">> \o END_TAG, <<"p","q">>, <<"w","x","y","z">>, END_TAG \o END_TAG,
                    <<"0","1","2","3","4","5","6","7","8","9","a","b","c","d","e","f">>} :
       inject_level(cancelled, source, yes)
  \/ \E idx \in 0..(smidata_combo.n - 1) : on_smidata_change(idx)
  \/ \E n \in DOMAIN smidata_entries, v \in EditValues : edit_smidata(n, v)
  \/ \E yes \in BOOLEAN : inject_smidata_block(yes)
  \/ \E i \in DOMAIN stage_combo.values : on_stage_change(i)
  \/ \E n \in DOMAIN lighting_entries, j \in 1..4, v \in EditValues : edit_lighting(n, j, v)
  \/ \E yes \in BOOLEAN : inject_lighting_block(yes)
  \/ \E idx \in 0..(warp_combo.n - 1) : on_warp_change(idx)
  \/ \E n \in DOMAIN warp_entries, v \in EditValues, append \in BOOLEAN : edit_warp(n, v, append)
  \/ export_warp_block
  \/ \E yes \in BOOLEAN : inject_warp_block(yes)


(***************************************************************************)
(* kata.py: the entity editor.                                             *)
(* Floats are the exact rationals of the Numbers section.                  *)
(***************************************************************************)
\* a + b on floats; an exact zero sum is -0.0 only when both terms are negative
NumAdd(a, b) ==
  LET Sum(s) ==
        IF s = 0 THEN [neg |-> a.neg /\ b.neg, n |-> 0, d |-> 1]
        ELSE Num(s < 0, IF s < 0 THEN -s ELSE s, a.d * b.d)
  IN  Sum((IF a.neg THEN -a.n ELSE a.n) * b.d + (IF b.neg THEN -b.n ELSE b.n) * a.d)

\* a * b and a / b (b not zero) on floats
NumMul(a, b) == Num(a.neg # b.neg, a.n * b.n, a.d * b.d)
NumDiv(a, b) == Num(a.neg # b.neg, a.n * b.d, a.d * b.n)

\* a <= b on floats
NumLe(a, b) ==
  (IF a.neg THEN -a.n ELSE a.n) * b.d <= (IF b.neg THEN -b.n ELSE b.n) * a.d

\* the tag names that _parse_block and commit_batch_changes look for
TAG ==
  [posi |-> <<"p","o","s","i">>,
   roll |-> <<"r","o","l","l">>,
   index |-> <<"i","n","d","e","x">>,
   pack_id |-> <<"p","a","c","k","_","i","d">>,
   attack_type |-> <<"a","t","t","a","c","k","_","t","y","p","e">>,
   move_type |-> <<"m","o","v","e","_","t","y","p","e">>,
   escape_type |-> <<"e","s","c","a","p","e","_","t","y","p","e">>,
   move_speed |-> <<"m","o","v","e","_","s","p","e","e","d">>,
   speed |-> <<"s","p","e","e","d">>,
   move_path_id |-> <<"m","o","v","e","_","p","a","t","h","_","i","d">>,
   path_id |-> <<"p","a","t","h","_","i","d">>,
   scale |-> <<"s","c","a","l","e">>,
   plus_type |-> <<"p","l","u","s","_","t","y","p","e">>,
   plus_fly_height |-> <<"p","l","u","s","_","f","l","y","_","h","e","i","g","h","t">>,
   plus_roll_speed |-> <<"p","l","u","s","_","r","o","l","l","_","s","p","e","e","d">>,
   plus_angle |-> <<"p","l","u","s","_","a","n","g","l","e">>,
   parent_type |-> <<"p","a","r","e","n","t","_","t","y","p","e">>]

OpenTag(t) == <<"<">> \o t \o <<">">>
CloseTag(t) == <<"<", "/">> \o t \o <<">">>

\* re.search(fr'<{t}>(.*?)</{t}>', src, re.DOTALL): [found, text] with the
\* text of group 1
get_t(t, src) ==
  LET Closed(s, e) ==
        IF e >= 0 THEN [found |-> TRUE, text |-> Slice(src, s, e)]
        ELSE [found |-> FALSE, text |-> <<>>]
      Opened(s) ==
        IF s >= 0 THEN Closed(s + Len(OpenTag(t)), Find(src, CloseTag(t), s + Len(OpenTag(t))))
        ELSE [found |-> FALSE, text |-> <<>>]
  IN  Opened(Find(src, OpenTag(t), 0))

\* find_val(tags, src): the stripped text of the first tag of the list that
\* matches, "0" when none does
RECURSIVE find_val(_, _)
find_val(tags, src) ==
  LET Got(m) == IF m.found THEN Strip(m.text) ELSE find_val(Tail(tags), src)
  IN  IF tags = <<>> THEN <<"0">> ELSE Got(get_t(tags[1], src))

\* list(re.finditer(r'[^\s]+', s)) from offset pos: the (start, end) spans
RECURSIVE Spans(_, _)
Spans(s, pos) ==
  LET Word(a, b) == <<<<a, b>>>> \o Spans(s, b)
      At(a) == IF a >= Len(s) THEN <<>>
               ELSE Word(a, Min({j \in a..Len(s) : j = Len(s) \/ s[j + 1] \in SpaceChars}))
  IN  At(SkipClass(s, pos, SpaceChars))

\* _parse_block(b): [ok, ent]; ok = FALSE stands for the ValueError of
\* float() on a token that is not a number
_parse_block(b) ==
  LET Zero == Num(FALSE, 0, 1)
      One == Num(FALSE, 1, 1)
      Fl(raw, sp) == [i \in 1..Len(sp) |-> Float(Slice(raw, sp[i][1], sp[i][2]))]
      Ent(p_raw, p, p_indices, r_raw, r, r_indices, id_raw) ==
        [raw |-> b, p_raw_content |-> p_raw, r_raw_content |-> r_raw,
         p_indices |-> p_indices, r_indices |-> r_indices,
         id_tag_len |-> Len(id_raw), x |-> p[1], y |-> p[2], z |-> p[3],
         rx |-> r[2], ry |-> r[3], rz |-> r[4], rw |-> r[1],
         id |-> Strip(id_raw), pack |-> Strip(get_t(TAG.pack_id, b).text),
         atk |-> Strip(get_t(TAG.attack_type, b).text),
         mov |-> Strip(get_t(TAG.move_type, b).text),
         esc |-> Strip(get_t(TAG.escape_type, b).text),
         spd |-> find_val(<<TAG.move_speed, TAG.speed>>, b),
         pth |-> find_val(<<TAG.move_path_id, TAG.path_id>>, b),
         scale |-> find_val(<<TAG.scale>>, b),
         plus_type |-> find_val(<<TAG.plus_type>>, b),
         plus_fly_height |-> find_val(<<TAG.plus_fly_height>>, b),
         plus_roll_speed |-> find_val(<<TAG.plus_roll_speed>>, b),
         plus_angle |-> find_val(<<TAG.plus_angle>>, b),
         parent_type |-> find_val(<<TAG.parent_type>>, b),
         child_ids |-> <<>>]
      Parsed(p_raw, pf, psp, r_raw, rf, rsp) ==
        [ok  |-> (\A i \in 1..Len(pf) : pf[i].ok) /\ (\A i \in 1..Len(rf) : rf[i].ok),
         ent |-> Ent(p_raw,
                     IF Len(pf) = 3 THEN [i \in 1..3 |-> pf[i].val] ELSE <<Zero, Zero, Zero>>,
                     IF Len(pf) = 3 THEN psp ELSE <<>>,
                     r_raw,
                     IF Len(rf) = 4 THEN [i \in 1..4 |-> rf[i].val] ELSE <<Zero, Zero, Zero, One>>,
                     IF Len(rf) = 4 THEN rsp ELSE <<>>,
                     get_t(TAG.index, b).text)]
      Tokens(p_raw, psp, r_raw, rsp) ==
        Parsed(p_raw, IF Len(psp) = 3 THEN Fl(p_raw, psp) ELSE <<>>, psp,
               r_raw, IF Len(rsp) = 4 THEN Fl(r_raw, rsp) ELSE <<>>, rsp)
      Raw(p_raw, r_raw) == Tokens(p_raw, Spans(p_raw, 0), r_raw, Spans(r_raw, 0))
  IN  Raw(get_t(TAG.posi, b).text, get_t(TAG.roll, b).text)

\* format_strict(val, width)
format_strict(val, width) ==
  LET Cut(s) == IF s # <<>> /\ s[Len(s)] = "." THEN Rjust(PySlice(s, 0, -1), width) ELSE s
      Fit(s) == IF Len(s) > width THEN Cut(Slice(s, 0, width)) ELSE s
  IN  Ljust(Fit(FormatFixed(val, 10)), width)

\* the loop that rebuilds a <posi> or <roll> content: the text between the
\* tokens is kept and token i is replaced by format_strict(vals[i], its width)
RECURSIVE JoinParts(_, _, _, _, _)
JoinParts(original_content, indices, vals, i, last_idx) ==
  IF i > Len(indices) THEN From(original_content, last_idx)
  ELSE Slice(original_content, last_idx, indices[i][1])
         \o format_strict(vals[i], indices[i][2] - indices[i][1])
         \o JoinParts(original_content, indices, vals, i + 1, indices[i][2])


\* the structural tokens of load_file
ENTITY_OPEN == <<"<","e","n","t","i","t","y",">">>
ENTITY_CLOSE == <<"<","/","e","n","t","i","t","y",">">>
CHILD_OPEN == <<"<","c","h","i","l","d",">">>
CHILD_CLOSE == <<"<","/","c","h","i","l","d",">">>

\* list(token_pattern.finditer(content)): the matches [token, start, end]
\* in the order of their offsets
MapTokens(content) ==
  LET TokenAt(i) ==
        IF MatchAt(content, ENTITY_OPEN, i) THEN ENTITY_OPEN
        ELSE IF MatchAt(content, ENTITY_CLOSE, i) THEN ENTITY_CLOSE
        ELSE IF MatchAt(content, CHILD_OPEN, i) THEN CHILD_OPEN
        ELSE IF MatchAt(content, CHILD_CLOSE, i) THEN CHILD_CLOSE
        ELSE <<>>
      Match(i) == [token |-> TokenAt(i), start |-> i, end |-> i + Len(TokenAt(i))]
      Sorted(P) ==
        [k \in 1..Cardinality(P) |->
           Match(CHOOSE p \in P : Cardinality({q \in P : q < p}) = k - 1)]
  IN  Sorted({i \in 0..(Len(content) - 1) : TokenAt(i) # <<>>})

\* initial values of the slice controls
slice_depth == Num(FALSE, 0, 1)
slice_thickness == Num(FALSE, 20, 1)

vars ==
  <<disk, dat_path, btn_scan, workers, after_queue, tab, level_offsets, level_rows, level_sel,
    pad_mode, smidata_blocks, smidata_combo, current_smidata_block, smidata_entries,
    lighting_blocks, stage_combo, stage_var, current_lighting_block, lighting_entries,
    warp_blocks, warp_combo, current_warp_block, warp_entries, last, used, map_vars>>

\* the fields with an entry widget and the tag commit_batch_changes writes
CommitTags ==
  <<<<"id", TAG.index>>, <<"atk", TAG.attack_type>>, <<"mov", TAG.move_type>>,
    <<"esc", TAG.escape_type>>, <<"spd", TAG.speed>>, <<"pth", TAG.path_id>>,
    <<"scale", TAG.scale>>, <<"plus_type", TAG.plus_type>>,
    <<"plus_fly_height", TAG.plus_fly_height>>, <<"plus_roll_speed", TAG.plus_roll_speed>>,
    <<"plus_angle", TAG.plus_angle>>, <<"parent_type", TAG.parent_type>>>>

EntryFields == {CommitTags[i][1] : i \in 1..Len(CommitTags)}

MapInit ==
  /\ entities = <<>>
  /\ file_sequence = <<>>
  /\ display_mapping = <<>>
  /\ selected_indices = <<>>
  /\ is_updating_ui = FALSE
  /\ dirty_fields = {}
  /\ offset_mode = FALSE
  /\ pos_vars = [i \in 1..3 |-> Num(FALSE, 0, 1)]
  /\ rot_vars = [i \in 1..4 |-> Num(FALSE, 0, 1)]
  /\ entry = [f \in EntryFields |-> <<>>]
  /\ planes = <<>>
  /\ plane_listbox = [rows |-> <<>>, sel |-> -1]
  /\ slice_axis = "None"
  /\ hist = [content |-> <<>>, raws |-> <<>>, in_child |-> <<>>, saved |-> <<>>,
             saved_done |-> FALSE]
  /\ mused = [loads |-> 0, picks |-> 0, creates |-> 0, ops |-> 0]

MUse(what) == mused' = [mused EXCEPT ![what] = @ + 1]

\* refresh_plane_list: one row per plane, no row selected
refresh_plane_list(ps) == [rows |-> [k \in 1..Len(ps) |-> ps[k].name], sel |-> -1]

\* on_slice_update with the entities ents and the slice mode;
\* gives the new [display_mapping, planes, plane_listbox]
on_slice_update(ents, mode) ==
  LET Zero == Num(FALSE, 0, 1)
      One == Num(FALSE, 1, 1)
      tax == IF mode = "Y-Axis (Height)" THEN "y" ELSE IF mode = "Z-Axis (Depth)" THEN "z" ELSE "x"
      Seen(i) ==
        mode = "None" \/ (/\ NumLe(NumAdd(slice_depth, Neg(slice_thickness)), ents[i][tax])
                          /\ NumLe(ents[i][tax], NumAdd(slice_depth, slice_thickness)))
      Visible(S) ==
        [k \in 1..Cardinality(S) |-> (CHOOSE i \in S : Cardinality({j \in S : j < i}) = k - 1) - 1]
      coeffs ==
        IF mode = "Y-Axis (Height)" THEN <<Zero, Zero, One, Neg(slice_depth)>>
        ELSE IF mode = "Z-Axis (Depth)" THEN <<Zero, One, Zero, Neg(slice_depth)>>
        ELSE <<One, Zero, Zero, Neg(slice_depth)>>
      Out(ps) ==
        [display_mapping |-> Visible({i \in 1..Len(ents) : Seen(i)}),
         planes          |-> ps,
         plane_listbox   |-> IF mode # "None" THEN refresh_plane_list(ps) ELSE plane_listbox]
      Kept(ps) ==
        Out(IF mode # "None"
              THEN Append(ps, [name |-> <<"S","l","i","c","e"," ","P","l","a","n","e"," ","[","A","u","t","o","]">>,
                           coeffs |-> coeffs, auto |-> TRUE])
              ELSE ps)
  IN  IF ents = <<>>
        THEN [display_mapping |-> display_mapping, planes |-> planes,
              plane_listbox |-> plane_listbox]
        ELSE Kept(SelectSeq(planes, LAMBDA p : ~p.auto))

\* update_editor_fields for the entities ents and the selection sel: the new
\* widget contents; raised = the IndexError of self.entities[sel[-1]], which
\* leaves is_updating_ui set
update_editor_fields(ents, sel) ==
  LET Same(raised) ==
        [entry |-> entry, pos_vars |-> pos_vars, rot_vars |-> rot_vars, raised |-> raised]
      Show(ent) ==
        [entry    |-> [f \in EntryFields |-> ent[f]],
         pos_vars |-> <<Neg(ent.x), Neg(ent.y), Neg(ent.z)>>,
         rot_vars |-> <<ent.rw, ent.rx, ent.ry, ent.rz>>,
         raised   |-> FALSE]
  IN  IF sel = <<>> THEN Same(FALSE)
      ELSE IF sel[Len(sel)] >= Len(ents) THEN Same(TRUE)
      ELSE IF offset_mode THEN Same(FALSE)
      ELSE Show(ents[sel[Len(sel)] + 1])

(***************************************************************************)
(* Bounds and inputs of the entity editor                                  *)
(***************************************************************************)
MaxLoads == 1
MaxPicks == 2
MaxCreates == 6
MaxOps == 2

\* the map files on disk (bytes) that the user can open
MapFiles ==
  {\* a parent with a nested parent, leaves, a byte that is not UTF-8 and a top-level entity with two
   \* numbers in <posi> and the id of one of the leaves
   <<"xFF","<","e","n","t","i","t","y",">","<","i","n","d","e","x",">"," ","0","4"," ","<","/",
   "i","n","d","e","x",">","<","p","o","s","i",">","1"," ","2","<","/","p","o","s","i",
   ">","<","/","e","n","t","i","t","y",">","<","e","n","t","i","t","y",">","<","i","n",
   "d","e","x",">"," ","0","1"," ","<","/","i","n","d","e","x",">","<","p","o","s","i",
   ">","1"," ","2"," ","3","<","/","p","o","s","i",">","<","c","h","i","l","d",">","<",
   "e","n","t","i","t","y",">","<","i","n","d","e","x",">"," ","0","2"," ","<","/","i",
   "n","d","e","x",">","<","p","o","s","i",">","1",".","5"," ","-","2"," ","0","<","/",
   "p","o","s","i",">","<","c","h","i","l","d",">","<","e","n","t","i","t","y",">","<",
   "i","n","d","e","x",">"," ","0","3"," ","<","/","i","n","d","e","x",">","<","p","o",
   "s","i",">","4"," ","2"," ","1","<","/","p","o","s","i",">","<","/","e","n","t","i",
   "t","y",">","<","/","c","h","i","l","d",">","<","/","e","n","t","i","t","y",">","<",
   "e","n","t","i","t","y",">","<","i","n","d","e","x",">"," ","0","4"," ","<","/","i",
   "n","d","e","x",">","<","p","o","s","i",">","0"," ","2"," ","5","<","/","p","o","s",
   "i",">","<","/","e","n","t","i","t","y",">","<","/","c","h","i","l","d",">","<","/",
   "e","n","t","i","t","y",">","\n">>,
   \* an <entity> that opens inside another one without a <child>
   <<"<","e","n","t","i","t","y",">","a","<","e","n","t","i","t","y",">","<","p","o","s","i",
   ">","1"," ","2"," ","3","<","/","p","o","s","i",">","<","/","e","n","t","i","t","y",
   ">","c","<","/","e","n","t","i","t","y",">">>,
   \* an entity whose text has a </posi> before its <posi>, and one with <roll>
   \* and <move_speed>
   <<"<","e","n","t","i","t","y",">","<","/","p","o","s","i",">","<","p","o","s","i",">","7",
   " ","8"," ","9","<","/","p","o","s","i",">","<","/","e","n","t","i","t","y",">","<",
   "e","n","t","i","t","y",">","<","p","o","s","i",">","4"," ","5"," ","6","<","/","p",
   "o","s","i",">","<","r","o","l","l",">","1"," ","0"," ","0"," ","0","<","/","r","o",
   "l","l",">","<","m","o","v","e","_","s","p","e","e","d",">"," ","3"," ","<","/","m","o",
   "v","e","_","s","p","e","e","d",">","<","/","e","n","t","i","t","y",">">>,
   \* a <posi> that holds a word that is no number
   <<"h","<","e","n","t","i","t","y",">","<","p","o","s","i",">","1"," ","x"," ","3","<","/",
   "p","o","s","i",">","<","/","e","n","t","i","t","y",">">>}

(***************************************************************************)
(* Loading, selecting, saving                                              *)
(***************************************************************************)
\* load_file: bytes = the content of the chosen file.  LoadFold is its
\* token loop from token k on; st holds the loop's variables,
\* entity_start_pos = -1 for None, ok = FALSE once _parse_block has raised;
\* cap bounds the number of files opened
load_file(bytes, cap) ==
  LET RECURSIVE LoadFold(_, _, _, _)
      LoadFold(content, toks, k, st) ==
        LET Str(s) == [ent |-> -1, str |-> s]
            Obj(i) == [ent |-> i, str |-> <<>>]
            Go(m, s2) == LoadFold(content, toks, k + 1, [s2 EXCEPT !.last_pos = m.end])
            Raise(s1) == [s1 EXCEPT !.ok = FALSE]
            Linked(ents, id) ==
              [ents EXCEPT ![st.parent_stack[Len(st.parent_stack)] + 1].child_ids = Append(@, id)]
            Parent(m, s1, p) ==
              IF ~p.ok THEN Raise(s1)
              ELSE Go(m, [s1 EXCEPT !.entities = Append(@, p.ent),
                                      !.in_child = Append(@, s1.parent_stack # <<>>),
                                      !.file_sequence = @ \o <<Obj(Len(s1.entities)), Str(m.token)>>,
                                      !.parent_stack = Append(@, Len(s1.entities)),
                                      !.entity_start_pos = -1])
            Leaf(m, s1, p) ==
              IF ~p.ok THEN Raise(s1)
              ELSE Go(m, [s1 EXCEPT !.entities =
                                        IF s1.parent_stack # <<>>
                                          THEN Linked(Append(@, p.ent), p.ent.id)
                                          ELSE Append(@, p.ent),
                                      !.in_child = Append(@, s1.parent_stack # <<>>),
                                      !.file_sequence = Append(@, Obj(Len(s1.entities))),
                                      !.entity_start_pos = -1])
            Token(m, s1) ==
              IF m.token = ENTITY_OPEN THEN Go(m, [s1 EXCEPT !.entity_start_pos = m.start])
              ELSE IF m.token = CHILD_OPEN
                THEN IF s1.entity_start_pos # -1
                       THEN Parent(m, s1, _parse_block(Slice(content, s1.entity_start_pos, m.start)))
                       ELSE Go(m, [s1 EXCEPT !.file_sequence = Append(@, Str(m.token))])
              ELSE IF m.token = ENTITY_CLOSE
                THEN IF s1.entity_start_pos # -1
                       THEN Leaf(m, s1, _parse_block(Slice(content, s1.entity_start_pos, m.end)))
                       ELSE Go(m, [s1 EXCEPT !.file_sequence = Append(@, Str(m.token))])
              ELSE Go(m, [s1 EXCEPT !.file_sequence = Append(@, Str(m.token)),
                                      !.parent_stack =
                                        IF @ # <<>> THEN SubSeq(@, 1, Len(@) - 1) ELSE @])
            Gap(m) ==
              Token(m, IF st.entity_start_pos = -1 /\ m.start > st.last_pos
                         THEN [st EXCEPT !.file_sequence =
                                           Append(@, Str(Slice(content, st.last_pos, m.start)))]
                         ELSE st)
        IN  IF k > Len(toks) THEN st ELSE Gap(toks[k])
      Str(s) == [ent |-> -1, str |-> s]
      Shown(st, fs, u) ==
        /\ entities' = st.entities
        /\ file_sequence' = fs
        /\ display_mapping' = u.display_mapping
        /\ planes' = u.planes
        /\ plane_listbox' = u.plane_listbox
      Looped(content, st) ==
        /\ hist' = [content |-> content,
                    raws |-> [i \in 1..Len(st.entities) |-> st.entities[i].raw],
                    in_child |-> st.in_child,
                    saved |-> <<>>, saved_done |-> FALSE]
        /\ IF st.ok
             THEN Shown(st,
                        IF st.last_pos < Len(content)
                          THEN Append(st.file_sequence, Str(From(content, st.last_pos)))
                          ELSE st.file_sequence,
                        on_slice_update(st.entities, slice_axis))
             ELSE /\ entities' = st.entities
                  /\ file_sequence' = st.file_sequence
                  /\ UNCHANGED <<display_mapping, planes, plane_listbox>>
      Read(content) ==
        Looped(content,
               LoadFold(content, MapTokens(content), 1,
                        [file_sequence |-> <<>>, entities |-> <<>>, last_pos |-> 0,
                         entity_start_pos |-> -1, parent_stack |-> <<>>, in_child |-> <<>>,
                         ok |-> TRUE]))
  IN  /\ mused.loads < cap
      /\ MUse("loads")
      /\ Read(Decode(bytes))
      /\ UNCHANGED <<selected_indices, is_updating_ui, dirty_fields, offset_mode, pos_vars,
                     rot_vars, entry, slice_axis>>
      /\ UNCHANGED dat_vars

\* what a changed selection shows: update_editor_fields and the flag it
\* leaves behind
Reselect(new, u, flag) ==
  /\ selected_indices' = new
  /\ entry' = u.entry
  /\ pos_vars' = u.pos_vars
  /\ rot_vars' = u.rot_vars
  /\ is_updating_ui' = flag

\* on_list_select: sel = the rows selected in the entity list box; the
\* handler does nothing while is_updating_ui is set
on_list_select(sel) ==
  LET Shown(new, u) == Reselect(new, u, IF new = <<>> THEN is_updating_ui ELSE u.raised)
      Picked(new) == Shown(new, update_editor_fields(entities, new))
  IN  /\ mused.picks < MaxPicks
      /\ MUse("picks")
      /\ ~is_updating_ui
      /\ \A i \in 1..Len(sel) : sel[i] < Len(display_mapping)
      /\ Picked([i \in 1..Len(sel) |-> display_mapping[sel[i] + 1]])
      /\ UNCHANGED hist
      /\ UNCHANGED <<entities, file_sequence, display_mapping, dirty_fields, offset_mode,
                     planes, plane_listbox, slice_axis>>
      /\ UNCHANGED dat_vars

\* on_graph_pick in CLICK mode on the point drawn for row ind, with the
\* modifier key held; sync_selection_ui follows
on_graph_pick(ind, key) ==
  LET \* list.remove(midx): the first occurrence goes
      Without(midx) ==
        LET at == Min({i \in 1..Len(selected_indices) : selected_indices[i] = midx})
        IN  SubSeq(selected_indices, 1, at - 1)
              \o SubSeq(selected_indices, at + 1, Len(selected_indices))
      Has(midx) == \E i \in 1..Len(selected_indices) : selected_indices[i] = midx
      Shown(new, u) == Reselect(new, u, u.raised)
      Picked(new) == Shown(new, update_editor_fields(entities, new))
      Clicked(midx) ==
        Picked(IF key = "control"
                 THEN (IF Has(midx) THEN Without(midx) ELSE Append(selected_indices, midx))
               ELSE IF key = "shift"
                 THEN (IF Has(midx) THEN selected_indices ELSE Append(selected_indices, midx))
               ELSE <<midx>>)
  IN  /\ mused.picks < MaxPicks
      /\ MUse("picks")
      /\ ind \in 0..(Len(display_mapping) - 1)
      /\ Clicked(display_mapping[ind + 1])
      /\ UNCHANGED hist
      /\ UNCHANGED <<entities, file_sequence, display_mapping, dirty_fields, offset_mode,
                     planes, plane_listbox, slice_axis>>
      /\ UNCHANGED dat_vars

\* "".join of file_sequence, an entity standing for its raw text
RECURSIVE JoinSequence(_, _)
JoinSequence(seq, ents) ==
  IF seq = <<>> THEN <<>>
  ELSE (IF seq[1].ent = -1 THEN seq[1].str ELSE ents[seq[1].ent + 1].raw)
         \o JoinSequence(Tail(seq), ents)

\* save_map_file with a file chosen, once after a load
save_map_file ==
  /\ mused.ops < MaxOps
  /\ MUse("ops")
  /\ hist' = [hist EXCEPT !.saved = Encode(JoinSequence(file_sequence, entities)),
                          !.saved_done = TRUE]
  /\ UNCHANGED <<entities, file_sequence, display_mapping, selected_indices, is_updating_ui,
                 dirty_fields, offset_mode, pos_vars, rot_vars, entry, planes, plane_listbox,
                 slice_axis>>
  /\ UNCHANGED dat_vars

(***************************************************************************)
(* Planes                                                                  *)
(***************************************************************************)
\* the user clicks row k of the plane list box
select_plane(k) ==
  /\ mused.ops < MaxOps
  /\ MUse("ops")
  /\ k \in 0..(Len(plane_listbox.rows) - 1)
  /\ k # plane_listbox.sel
  /\ plane_listbox' = [plane_listbox EXCEPT !.sel = k]
  /\ UNCHANGED hist
  /\ UNCHANGED <<entities, file_sequence, display_mapping, selected_indices, is_updating_ui,
                 dirty_fields, offset_mode, pos_vars, rot_vars, entry, planes, slice_axis>>
  /\ UNCHANGED dat_vars

\* create_plane_from_selection without its check of the number of planes
PlaneGuardNoLimit(sel, ps) ==
  IF ~(3 <= Len(sel) /\ Len(sel) <= 5) THEN "select" ELSE "ok"

\* the two checks that open create_plane_from_selection
PlaneGuard(sel, ps) ==
  IF ~(3 <= Len(sel) /\ Len(sel) <= 5) THEN "select"
  ELSE IF Len(SelectSeq(ps, LAMBDA p : ~p.auto)) >= 5 THEN "limit"
  ELSE "ok"

\* a*x + b*z + c*y for the point p = (x, z, y)
Dot(n, p) == NumAdd(NumAdd(NumMul(n[1], p[1]), NumMul(n[2], p[2])), NumMul(n[3], p[3]))

\* create_plane_from_selection; normal = vh[2, :] of the decomposition,
\* which is orthogonal to every pts[i] - centroid when such a vector exists
\* (an axis unit normal; the selections that have none are not modelled)
create_plane_from_selection(normal) ==
  LET RECURSIVE NumSum(_)
      NumSum(s) ==
        IF s = <<>> THEN Num(FALSE, 0, 1)
        ELSE NumAdd(NumSum(SubSeq(s, 1, Len(s) - 1)), s[Len(s)])
      Name(centroid) ==
        <<"P","l","a","n","e"," ">> \o NatStr(Len(planes) + 1) \o <<" ","(","h","~">>
          \o FormatFixed(centroid[3], 1) \o <<")">>
      Added(ps) ==
        /\ planes' = ps
        /\ plane_listbox' = refresh_plane_list(ps)
        /\ UNCHANGED hist
      Fit(pts, centroid) ==
        /\ \A i \in 1..Len(pts) :
             /\ NumLe(Dot(normal, pts[i]), Dot(normal, centroid))
             /\ NumLe(Dot(normal, centroid), Dot(normal, pts[i]))
        /\ Added(Append(planes,
                        [name   |-> Name(centroid),
                         coeffs |-> <<normal[1], normal[2], normal[3],
                                      Neg(Dot(normal, centroid))>>,
                         auto   |-> FALSE]))
      Mean(pts) ==
        Fit(pts, [j \in 1..3 |->
                    NumDiv(NumSum([i \in 1..Len(pts) |-> pts[i][j]]), Num(FALSE, Len(pts), 1))])
      Refused(result) ==
        /\ UNCHANGED hist
        /\ UNCHANGED <<planes, plane_listbox>>
      Checked(guard) ==
        IF guard # "ok" THEN Refused(guard)
        ELSE IF \E i \in 1..Len(selected_indices) : selected_indices[i] >= Len(entities)
          THEN Refused("error")                                   \* IndexError
        ELSE Mean([i \in 1..Len(selected_indices) |->
                     <<entities[selected_indices[i] + 1].x, entities[selected_indices[i] + 1].z,
                       entities[selected_indices[i] + 1].y>>])
  IN  /\ mused.creates < MaxCreates
      /\ MUse("creates")
      /\ Checked(PlaneGuard(selected_indices, planes))
      /\ UNCHANGED <<entities, file_sequence, display_mapping, selected_indices, is_updating_ui,
                     dirty_fields, offset_mode, pos_vars, rot_vars, entry, slice_axis>>
      /\ UNCHANGED dat_vars

\* delete_selected_plane with a row selected
delete_selected_plane ==
  LET Popped(ps) == planes' = ps /\ plane_listbox' = refresh_plane_list(ps)
      At(k) ==
        IF k >= Len(planes)                                        \* IndexError
          THEN UNCHANGED hist /\ UNCHANGED <<planes, plane_listbox>>
          ELSE /\ Popped(SubSeq(planes, 1, k) \o SubSeq(planes, k + 2, Len(planes)))
               /\ UNCHANGED hist
  IN  /\ mused.ops < MaxOps
      /\ MUse("ops")
      /\ plane_listbox.sel # -1
      /\ At(plane_listbox.sel)
      /\ UNCHANGED <<entities, file_sequence, display_mapping, selected_indices, is_updating_ui,
                     dirty_fields, offset_mode, pos_vars, rot_vars, entry, slice_axis>>
      /\ UNCHANGED dat_vars

\* the user picks mode in the slice combo box: on_slice_axis_change
on_slice_axis_change(mode) ==
  LET Shown(u) ==
        /\ display_mapping' = u.display_mapping
        /\ planes' = u.planes
        /\ plane_listbox' = u.plane_listbox
  IN  /\ mused.ops < MaxOps
      /\ MUse("ops")
      /\ mode # slice_axis
      /\ slice_axis' = mode
      /\ Shown(on_slice_update(entities, mode))
      /\ UNCHANGED hist
      /\ UNCHANGED <<entities, file_sequence, selected_indices, is_updating_ui, dirty_fields,
                     offset_mode, pos_vars, rot_vars, entry>>
      /\ UNCHANGED dat_vars

(***************************************************************************)
(* Moving entities                                                         *)
(***************************************************************************)
\* _sync_entity_raw(ent): [ok, ent]; ok = FALSE is the IndexError of
\* ent['p_indices'][i] on an entity whose position was not parsed
_sync_entity_raw(ent) ==
  LET Put(recon, si, ei) ==
        [ok  |-> TRUE,
         ent |-> [ent EXCEPT !.p_raw_content = recon,
                             !.raw = PySlice(@, 0, si)
                                       \o Ljust(PySlice(recon, 0, ei - si), ei - si)
                                       \o PySlice(@, ei, Len(@))]]
      Rebuilt(recon) ==
        Put(recon, Find(ent.raw, OpenTag(TAG.posi), 0) + Len(OpenTag(TAG.posi)),
            Find(ent.raw, CloseTag(TAG.posi), 0))
  IN  IF Len(ent.p_indices) < 3 THEN [ok |-> FALSE, ent |-> ent]
      ELSE Rebuilt(JoinParts(ent.p_raw_content, ent.p_indices, <<ent.x, ent.y, ent.z>>, 1, 0))

\* snap_to_plane; SnapFold is its loop over selected_indices from position
\* k on, for the plane (a, b, c, d) and the snap axis, r = [ents, count,
\* raised]
snap_to_plane ==
  LET RECURSIVE SnapFold(_, _, _, _)
      SnapFold(coeffs, snap_axis, k, r) ==
        LET a == coeffs[1]
            b == coeffs[2]
            c == coeffs[3]
            d == coeffs[4]
            Val(ent) ==
              IF snap_axis = "y"
                THEN NumDiv(Neg(NumAdd(NumAdd(NumMul(a, ent.x), NumMul(b, ent.z)), d)), c)
              ELSE IF snap_axis = "z"
                THEN NumDiv(Neg(NumAdd(NumAdd(NumMul(a, ent.x), NumMul(c, ent.y)), d)), b)
              ELSE NumDiv(Neg(NumAdd(NumAdd(NumMul(b, ent.z), NumMul(c, ent.y)), d)), a)
            Synced(idx, moved, s) ==
              IF s.ok
                THEN SnapFold(coeffs, snap_axis, k + 1,
                              [r EXCEPT !.ents[idx + 1] = s.ent, !.count = @ + 1])
                ELSE [r EXCEPT !.ents[idx + 1] = moved, !.raised = TRUE]
            Moved(idx, moved) == Synced(idx, moved, _sync_entity_raw(moved))
            Snap(idx, ent, val) ==
              IF NumLe(ent[snap_axis], val) /\ NumLe(val, ent[snap_axis])
                THEN SnapFold(coeffs, snap_axis, k + 1, r)
                ELSE Moved(idx, [ent EXCEPT ![snap_axis] = val])
            At(idx) ==
              IF idx >= Len(r.ents) THEN [r EXCEPT !.raised = TRUE]      \* IndexError
              ELSE Snap(idx, r.ents[idx + 1], Val(r.ents[idx + 1]))
        IN  IF k > Len(selected_indices) THEN r ELSE At(selected_indices[k])
      Half == Num(FALSE, 1, 2)
      Tiny == Num(FALSE, 1, 1000000)
      Abs(v) == [v EXCEPT !.neg = FALSE]
      Shown(r, u) ==
        /\ entities' = r.ents
        /\ entry' = u.entry
        /\ pos_vars' = u.pos_vars
        /\ rot_vars' = u.rot_vars
        /\ is_updating_ui' = u.raised
        /\ UNCHANGED hist
      Looped(r) ==
        IF r.raised \/ r.count = 0
          THEN /\ entities' = r.ents
               /\ UNCHANGED hist
               /\ UNCHANGED <<entry, pos_vars, rot_vars, is_updating_ui>>
          ELSE Shown(r, update_editor_fields(r.ents, selected_indices))
      Nothing(result) ==
        /\ UNCHANGED hist
        /\ UNCHANGED <<entities, entry, pos_vars, rot_vars, is_updating_ui>>
      Axis(coeffs, snap_axis) ==
        IF ~NumLe(Tiny, Abs(coeffs[IF snap_axis = "y" THEN 3 ELSE IF snap_axis = "z" THEN 2 ELSE 1]))
          THEN Nothing("parallel")
          ELSE Looped(SnapFold(coeffs, snap_axis, 1,
                               [ents |-> entities, count |-> 0, raised |-> FALSE]))
      Plane(coeffs) ==
        Axis(coeffs, IF ~NumLe(Abs(coeffs[3]), Half) THEN "y"
                     ELSE IF ~NumLe(Abs(coeffs[2]), Half) THEN "z"
                     ELSE IF ~NumLe(Abs(coeffs[1]), Half) THEN "x"
                     ELSE "y")
  IN  /\ mused.ops < MaxOps
      /\ MUse("ops")
      /\ IF plane_listbox.sel = -1 \/ selected_indices = <<>> THEN Nothing("selection")
         ELSE IF plane_listbox.sel >= Len(planes) THEN Nothing("error")   \* IndexError
         ELSE Plane(planes[plane_listbox.sel + 1].coeffs)
      /\ UNCHANGED <<file_sequence, display_mapping, selected_indices, dirty_fields,
                     offset_mode, planes, plane_listbox, slice_axis>>
      /\ UNCHANGED dat_vars

\* swap_positions
swap_positions ==
  LET Shown(ents, u) ==
        /\ entities' = ents
        /\ entry' = u.entry
        /\ pos_vars' = u.pos_vars
        /\ rot_vars' = u.rot_vars
        /\ is_updating_ui' = u.raised
        /\ UNCHANGED hist
      Raised(ents) ==
        /\ entities' = ents
        /\ UNCHANGED hist
        /\ UNCHANGED <<entry, pos_vars, rot_vars, is_updating_ui>>
      Second(idx2, ents, s2) ==
        IF ~s2.ok THEN Raised(ents)
        ELSE Shown([ents EXCEPT ![idx2 + 1] = s2.ent],
                   update_editor_fields([ents EXCEPT ![idx2 + 1] = s2.ent], selected_indices))
      First(idx1, idx2, ents, s1) ==
        IF ~s1.ok THEN Raised(ents)
        ELSE Second(idx2, [ents EXCEPT ![idx1 + 1] = s1.ent], _sync_entity_raw(ents[idx2 + 1]))
      Swapped(idx1, idx2, ents) == First(idx1, idx2, ents, _sync_entity_raw(ents[idx1 + 1]))
      Pair(idx1, idx2) ==
        IF idx1 >= Len(entities) \/ idx2 >= Len(entities) THEN Raised(entities)  \* IndexError
        ELSE Swapped(idx1, idx2,
                     [entities EXCEPT ![idx1 + 1].x = entities[idx2 + 1].x,
                                      ![idx1 + 1].y = entities[idx2 + 1].y,
                                      ![idx1 + 1].z = entities[idx2 + 1].z,
                                      ![idx2 + 1].x = entities[idx1 + 1].x,
                                      ![idx2 + 1].y = entities[idx1 + 1].y,
                                      ![idx2 + 1].z = entities[idx1 + 1].z])
  IN  /\ mused.ops < MaxOps
      /\ MUse("ops")
      /\ IF Len(selected_indices) # 2
           THEN /\ UNCHANGED hist
                /\ UNCHANGED <<entities, entry, pos_vars, rot_vars, is_updating_ui>>
           ELSE Pair(selected_indices[1], selected_indices[2])
      /\ UNCHANGED <<file_sequence, display_mapping, selected_indices, dirty_fields,
                     offset_mode, planes, plane_listbox, slice_axis>>
      /\ UNCHANGED dat_vars

(***************************************************************************)
(* The batch editor                                                        *)
(***************************************************************************)
\* the user releases position slider i (kind "pos") or rotation slider i
\* (kind "rot") at the value v
move_slider(kind, i, v) ==
  /\ mused.ops < MaxOps
  /\ MUse("ops")
  /\ IF kind = "pos"
       THEN /\ i \in 1..3
            /\ pos_vars' = [pos_vars EXCEPT ![i] = v]
            /\ dirty_fields' = dirty_fields \cup {<<"pos_0", "pos_1", "pos_2">>[i]}
            /\ UNCHANGED rot_vars
       ELSE /\ i \in 1..4
            /\ rot_vars' = [rot_vars EXCEPT ![i] = v]
            /\ dirty_fields' = dirty_fields \cup {<<"rot_0", "rot_1", "rot_2", "rot_3">>[i]}
            /\ UNCHANGED pos_vars
  /\ UNCHANGED hist
  /\ UNCHANGED <<entities, file_sequence, display_mapping, selected_indices, is_updating_ui,
                 offset_mode, entry, planes, plane_listbox, slice_axis>>
  /\ UNCHANGED dat_vars

\* the user types v into the entry widget of field f
edit_entry(f, v) ==
  /\ mused.ops < MaxOps
  /\ MUse("ops")
  /\ entry' = [entry EXCEPT ![f] = v]
  /\ dirty_fields' = dirty_fields \cup {f}
  /\ UNCHANGED hist
  /\ UNCHANGED <<entities, file_sequence, display_mapping, selected_indices, is_updating_ui,
                 offset_mode, pos_vars, rot_vars, planes, plane_listbox, slice_axis>>
  /\ UNCHANGED dat_vars

\* the user flips the OFFSET MODE check box: on_offset_toggle
on_offset_toggle ==
  /\ mused.ops < MaxOps
  /\ UNCHANGED mused       \* the box has two states, flipping it is not counted
  /\ offset_mode' = ~offset_mode
  /\ pos_vars' = IF ~offset_mode THEN [i \in 1..3 |-> Num(FALSE, 0, 1)] ELSE pos_vars
  /\ UNCHANGED hist
  /\ UNCHANGED <<entities, file_sequence, display_mapping, selected_indices, is_updating_ui,
                 dirty_fields, rot_vars, entry, planes, plane_listbox, slice_axis>>
  /\ UNCHANGED dat_vars

\* safe_rep(tag, new_content, block) of commit_batch_changes
safe_rep(tag, new_content, block) ==
  LET Rep(si, ei) ==
        IF si = -1 \/ ei = -1 THEN block
        ELSE PySlice(block, 0, si) \o Ljust(PySlice(new_content, 0, ei - si), ei - si)
               \o PySlice(block, ei, Len(block))
  IN  Rep(Find(block, OpenTag(tag), 0) + Len(OpenTag(tag)), Find(block, CloseTag(tag), 0))

\* str.zfill(width)
zfill(s, width) ==
  IF Len(s) >= width THEN s
  ELSE IF s # <<>> /\ s[1] \in {"+", "-"}
    THEN <<s[1]>> \o [i \in 1..(width - Len(s)) |-> "0"] \o Tail(s)
  ELSE [i \in 1..(width - Len(s)) |-> "0"] \o s

\* refresh_list for the entities ents and the display order mapping: the
\* rows of the entity list box, each with its indent prefix and the id it
\* shows (name and size come from the item database and are left out)
refresh_list(ents, mapping) ==
  LET parent_map ==
        UNION {{zfill(Strip(ents[i].child_ids[c]), 4) : c \in 1..Len(ents[i].child_ids)} :
                 i \in 1..Len(ents)}
      is_default_sort == mapping = [k \in 1..Len(ents) |-> k - 1]
      Row(e) ==
        [prefix |-> IF is_default_sort /\ zfill(Strip(e.id), 4) \in parent_map
                      THEN <<" ", " ", " ", " ">> ELSE <<>>,
         id     |-> e.id]
  IN  [k \in 1..Len(mapping) |-> Row(ents[mapping[k] + 1])]

\* variant: once an axis is dirty all three position variables are written
CommitEntityAllAxes(ent) ==
  LET RECURSIVE CommitScalars(_, _)
      CommitScalars(en, k) ==
        LET Put(f, t, val_str) ==
              CommitScalars([en EXCEPT ![f] = val_str,
                                        !.raw = safe_rep(t, <<" ">> \o val_str \o <<" ">>, @)],
                            k + 1)
            Field(f, t, val_str) ==
              Put(f, t, IF f = "id" THEN zfill(val_str, en.id_tag_len - 2) ELSE val_str)
        IN  IF k > Len(CommitTags) THEN en
            ELSE IF CommitTags[k][1] \in dirty_fields
              THEN Field(CommitTags[k][1], CommitTags[k][2], Strip(entry[CommitTags[k][1]]))
            ELSE CommitScalars(en, k + 1)
      PosDirty(i) == <<"pos_0", "pos_1", "pos_2">>[i] \in dirty_fields
      RotDirty(i) == <<"rot_0", "rot_1", "rot_2", "rot_3">>[i] \in dirty_fields
      NewPos(i, old) ==
        IF offset_mode THEN NumAdd(old, Neg(pos_vars[i]))
        ELSE Neg(pos_vars[i])
      NewRot(i, old) == IF RotDirty(i) THEN rot_vars[i] ELSE old
      RotRaw(e, content) ==
        CommitScalars([e EXCEPT !.r_raw_content = content,
                                !.raw = safe_rep(TAG.roll, content, @)], 1)
      RotText(e) ==
        RotRaw(e, JoinParts(e.r_raw_content, e.r_indices, <<e.rw, e.rx, e.ry, e.rz>>, 1, 0))
      Rot(e) ==
        IF (\E i \in 1..4 : RotDirty(i)) /\ Len(e.r_indices) = 4
          THEN RotText([e EXCEPT !.rw = NewRot(1, @), !.rx = NewRot(2, @),
                                 !.ry = NewRot(3, @), !.rz = NewRot(4, @)])
          ELSE CommitScalars(e, 1)
      PosRaw(e, content) ==
        Rot([e EXCEPT !.p_raw_content = content, !.raw = safe_rep(TAG.posi, content, @)])
      PosText(e) ==
        PosRaw(e, JoinParts(e.p_raw_content, e.p_indices, <<e.x, e.y, e.z>>, 1, 0))
  IN  IF (\E i \in 1..3 : PosDirty(i)) /\ Len(ent.p_indices) = 3
        THEN PosText([ent EXCEPT !.x = NewPos(1, @), !.y = NewPos(2, @), !.z = NewPos(3, @)])
        ELSE Rot(ent)

\* the body of the loop of commit_batch_changes for one selected entity;
\* CommitScalars is its loop over the scalar fields, from entry k of the
\* field list on
CommitEntity(ent) ==
  LET RECURSIVE CommitScalars(_, _)
      CommitScalars(en, k) ==
        LET Put(f, t, val_str) ==
              CommitScalars([en EXCEPT ![f] = val_str,
                                        !.raw = safe_rep(t, <<" ">> \o val_str \o <<" ">>, @)],
                            k + 1)
            Field(f, t, val_str) ==
              Put(f, t, IF f = "id" THEN zfill(val_str, en.id_tag_len - 2) ELSE val_str)
        IN  IF k > Len(CommitTags) THEN en
            ELSE IF CommitTags[k][1] \in dirty_fields
              THEN Field(CommitTags[k][1], CommitTags[k][2], Strip(entry[CommitTags[k][1]]))
            ELSE CommitScalars(en, k + 1)
      PosDirty(i) == <<"pos_0", "pos_1", "pos_2">>[i] \in dirty_fields
      RotDirty(i) == <<"rot_0", "rot_1", "rot_2", "rot_3">>[i] \in dirty_fields
      NewPos(i, old) ==
        IF ~PosDirty(i) THEN old
        ELSE IF offset_mode THEN NumAdd(old, Neg(pos_vars[i]))
        ELSE Neg(pos_vars[i])
      NewRot(i, old) == IF RotDirty(i) THEN rot_vars[i] ELSE old
      RotRaw(e, content) ==
        CommitScalars([e EXCEPT !.r_raw_content = content,
                                !.raw = safe_rep(TAG.roll, content, @)], 1)
      RotText(e) ==
        RotRaw(e, JoinParts(e.r_raw_content, e.r_indices, <<e.rw, e.rx, e.ry, e.rz>>, 1, 0))
      Rot(e) ==
        IF (\E i \in 1..4 : RotDirty(i)) /\ Len(e.r_indices) = 4
          THEN RotText([e EXCEPT !.rw = NewRot(1, @), !.rx = NewRot(2, @),
                                 !.ry = NewRot(3, @), !.rz = NewRot(4, @)])
          ELSE CommitScalars(e, 1)
      PosRaw(e, content) ==
        Rot([e EXCEPT !.p_raw_content = content, !.raw = safe_rep(TAG.posi, content, @)])
      PosText(e) ==
        PosRaw(e, JoinParts(e.p_raw_content, e.p_indices, <<e.x, e.y, e.z>>, 1, 0))
  IN  IF (\E i \in 1..3 : PosDirty(i)) /\ Len(ent.p_indices) = 3
        THEN PosText([ent EXCEPT !.x = NewPos(1, @), !.y = NewPos(2, @), !.z = NewPos(3, @)])
        ELSE Rot(ent)

\* commit_batch_changes; CommitFold is its loop over selected_indices
\* from position k on, res = [ents, raised]
commit_batch_changes ==
  LET RECURSIVE CommitFold(_, _)
      CommitFold(k, res) ==
        IF k > Len(selected_indices) THEN res
        ELSE IF selected_indices[k] >= Len(res.ents) THEN [res EXCEPT !.raised = TRUE]   \* IndexError
        ELSE CommitFold(k + 1, [res EXCEPT !.ents[selected_indices[k] + 1] = CommitEntity(@)])
      Looped(r) ==
        /\ entities' = r.ents
        /\ IF r.raised
             THEN UNCHANGED hist /\ UNCHANGED <<dirty_fields, pos_vars>>
             ELSE /\ dirty_fields' = {}
                  /\ pos_vars' = IF offset_mode THEN [i \in 1..3 |-> Num(FALSE, 0, 1)]
                                 ELSE pos_vars
                  /\ UNCHANGED hist
  IN  /\ mused.ops < MaxOps
      /\ MUse("ops")
      /\ IF selected_indices = <<>>
           THEN /\ UNCHANGED hist
                /\ UNCHANGED <<entities, dirty_fields, pos_vars>>
           ELSE Looped(CommitFold(1, [ents |-> entities, raised |-> FALSE]))
      /\ UNCHANGED <<file_sequence, display_mapping, selected_indices, is_updating_ui,
                     offset_mode, rot_vars, entry, planes, plane_listbox, slice_axis>>
      /\ UNCHANGED dat_vars

(***************************************************************************)
(* The two programs as state machines                                      *)
(***************************************************************************)
MapNext ==
  \/ \E bytes \in MapFiles : load_file(bytes, MaxLoads)
  \/ \E sel \in {<<0, 1>>, <<0, 2>>, <<1, 3, 4>>} : on_list_select(sel)
  \/ \E ind \in {0, 2}, key \in {"none", "control"} : on_graph_pick(ind, key)
  \/ save_map_file
  \/ \E k \in 0..5 : select_plane(k)
  \/ \E normal \in {<<Num(FALSE, 0, 1), Num(FALSE, 0, 1), Num(FALSE, 1, 1)>>,
                     <<Num(FALSE, 0, 1), Num(FALSE, 1, 1), Num(FALSE, 0, 1)>>,
                     <<Num(FALSE, 1, 1), Num(FALSE, 0, 1), Num(FALSE, 0, 1)>>} :
       create_plane_from_selection(normal)
  \/ delete_selected_plane
  \/ \E mode \in {"None", "Y-Axis (Height)"} : on_slice_axis_change(mode)
  \/ snap_to_plane
  \/ swap_positions
  \/ \E kind \in {"pos", "rot"}, v \in {Num(TRUE, 1, 2)} : move_slider(kind, 1, v)
  \/ \E t \in {<<"id", <<"7">>>>, <<"spd", <<"1","2","3","4","5">>>>, <<"spd", <<"9">>>>} :
       edit_entry(t[1], t[2])
  \/ on_offset_toggle
  \/ commit_batch_changes

Init == DatInit /\ MapInit

\* the injector alone and the entity editor alone
Spec == Init /\ [][DatNext]_vars
MapSpec == Init /\ [][MapNext]_vars

(***************************************************************************)
(* Selecting entities while files are opened one after the other           *)
(***************************************************************************)
MaxReloads == 2     \* files opened

SelectNext ==
  \/ \E bytes \in MapFiles : load_file(bytes, MaxReloads)
  \/ \E sel \in {<<0, 1>>, <<0, 2>>, <<1, 3, 4>>} : on_list_select(sel)
  \/ \E ind \in {0, 2}, key \in {"none", "control", "shift"} : on_graph_pick(ind, key)
  \/ \E mode \in {"None", "Y-Axis (Height)"} : on_slice_axis_change(mode)

SelectSpec == Init /\ [][SelectNext]_vars

(***************************************************************************)
(* The scan thread alone: Scan All may be clicked MaxThreads times          *)
(***************************************************************************)
MaxThreads == 2     \* Scan All clicks

ScanNext ==
  \/ \E path \in Paths : load_dat_file(path)
  \/ start_scan_thread(MaxThreads)
  \/ \E w \in DOMAIN workers : WorkerOpen(w)
  \/ \E w \in DOMAIN workers : WorkerScanLevels(w)
  \/ \E w \in DOMAIN workers : WorkerScanSmidata(w)
  \/ \E w \in DOMAIN workers : WorkerScanLighting(w)
  \/ \E w \in DOMAIN workers : WorkerScanWarp(w)
  \/ finish_scan

ScanSpec == Init /\ [][ScanNext]_vars

(***************************************************************************)
(* One scan of files whose <loc> region holds any short sequence of        *)
(* opening tags, closing tags and content                                  *)
(***************************************************************************)
MaxPieces == 3      \* pieces in the <loc> region

\* the texts made of at most MaxPieces pieces
LocTexts ==
  LET Piece(k) == IF k = 1 THEN LOC_START_SIG ELSE IF k = 2 THEN LOC_END_SIG ELSE <<"x">>
      RECURSIVE Concat(_)
      Concat(ks) == IF ks = <<>> THEN <<>> ELSE Piece(Head(ks)) \o Concat(Tail(ks))
  IN  {Concat(ks) : ks \in UNION {[1..n -> 1..3] : n \in 0..MaxPieces}}

LevelInit ==
  /\ \E text \in LocTexts :
       disk = [InitialDisk EXCEPT !["c.dat"] = Slice(@, 0, LOC_START) \o text]
  /\ WindowInit
  /\ MapInit

LevelNext ==
  \/ \E path \in Paths : load_dat_file(path)
  \/ start_scan_thread(MaxScans)
  \/ \E w \in DOMAIN workers : WorkerOpen(w)
  \/ \E w \in DOMAIN workers : WorkerScanLevels(w)
  \/ \E w \in DOMAIN workers : WorkerScanSmidata(w)
  \/ \E w \in DOMAIN workers : WorkerScanLighting(w)
  \/ \E w \in DOMAIN workers : WorkerScanWarp(w)
  \/ finish_scan

LevelSpec == LevelInit /\ [][LevelNext]_vars

(***************************************************************************)
(* Properties of the injector                                              *)
(***************************************************************************)
\* the last attempt got as far as picking a slot of the file
SlotPicked == last.result \in {"too_long", "mismatch", "declined", "written"}

\* the bytes of the file of the last attempt that lie in its slot
SlotBytes == Slice(disk[last.path], last.start, last.start + last.slot)

\* C1: when the source given to inject_level holds more bytes than the
\* slot's content_length, the attempt is rejected before the confirmation:
\* the .dat file keeps every byte and its size.
C1_OversizedLevelRejected ==
  (last.op = "inject_level" /\ SlotPicked /\ Len(last.text) > last.slot)
    => /\ ~last.asked
       /\ last.result # "written"
       /\ disk[last.path] = last.before
       /\ Len(disk[last.path]) = Len(last.before)

C1_Witness ==
  /\ last.op = "inject_level"
  /\ last.result = "too_long"
  /\ Len(last.text) > last.slot
  /\ last.slot > 0

\* C2: when the source given to inject_level is no longer than the slot the
\* confirmation is shown, and once confirmed the bytes written at
\* content_start are exactly content_length long: the source bytes with one
\* run of content_length - len(source) spaces put in, in both padding modes.
C2_LevelPaddedToSlot ==
  (last.op = "inject_level" /\ SlotPicked /\ Len(last.text) <= last.slot)
    => /\ last.asked
       /\ last.yes =>
            /\ last.result = "written"
            /\ Len(last.data) = last.slot
            /\ \E k \in 0..Len(last.text) :
                 last.data = Slice(last.text, 0, k) \o Spaces(last.slot - Len(last.text))
                               \o From(last.text, k)
            /\ SlotBytes = last.data

C2_Witness ==
  /\ last.op = "inject_level"
  /\ last.result = "written"
  /\ pad_mode = "spaces_end"
  /\ Len(last.text) < last.slot
  /\ last.data # last.text \o Spaces(last.slot - Len(last.text))

Starts(blocks) == [i \in 1..Len(blocks) |-> blocks[i].start]

\* C3: a step in which an inject writes to the file, with slot offsets that
\* a scan of that same file produced, changes only bytes of the slot
\* [start, start + length): the bytes outside it, the file's length, the
\* other file and the start offsets of all scanned blocks stay as they were.
C3_OffsetStability ==
  [][(/\ used'.injects = used.injects + 1
      /\ last'.result = "written"
      /\ last'.src.path = dat_path)
     => /\ Len(disk'[dat_path]) = Len(disk[dat_path])
        /\ \A i \in 1..Len(disk[dat_path]) :
             (i <= last'.start \/ i > last'.start + last'.slot)
               => disk'[dat_path][i] = disk[dat_path][i]
        /\ \A q \in Paths \ {dat_path} : disk'[q] = disk[q]
        /\ [i \in 1..Len(level_offsets') |-> level_offsets'[i].loc_start]
             = [i \in 1..Len(level_offsets) |-> level_offsets[i].loc_start]
        /\ Starts(smidata_blocks') = Starts(smidata_blocks)
        /\ Starts(lighting_blocks') = Starts(lighting_blocks)
        /\ Starts(warp_blocks') = Starts(warp_blocks)]_vars

C3_Witness ==
  /\ last.result = "written"
  /\ last.op = "inject_warp_block"
  /\ last.src.path = last.path
  /\ disk[last.path] # last.before

ParamOps == {"inject_smidata_block", "inject_lighting_block", "inject_warp_block"}

\* C4: in inject_smidata_block, inject_lighting_block and inject_warp_block
\* the bytes written always have length block.end - block.start and fill
\* the slot; an attempt whose bytes do not have that length writes nothing.
C4_LengthsMustMatch ==
  (last.op \in ParamOps /\ SlotPicked)
    => /\ last.result = "written" => (Len(last.data) = last.slot /\ SlotBytes = last.data)
       /\ Len(last.data) # last.slot
            => (last.result \in {"too_long", "mismatch"} /\ disk[last.path] = last.before)
       /\ last.result # "written" => disk[last.path] = last.before

C4_Witness ==
  /\ last.op = "inject_smidata_block"
  /\ last.result = "written"
  /\ Len(last.data) = last.slot
  /\ Slice(last.before, last.start, last.start + last.slot) # last.data
  /\ disk[last.path] # last.before

\* C5: when the text inject_lighting_block builds encodes to fewer bytes
\* than block.end - block.start, the text is padded with spaces to the slot
\* length and the attempt goes on to the confirmation instead of being
\* rejected.
C5_LightingPadded ==
  (last.op = "inject_lighting_block" /\ SlotPicked /\ Len(Encode(last.text)) < last.slot)
    => /\ last.asked
       /\ Len(last.data) = last.slot

\* the attributes of a text as re.findall meets them: [key, vs, ve] with the
\* value at s[vs:ve]
AttrSpans(s) ==
  LET RECURSIVE SpansFrom(_)
      SpansFrom(pos) ==
        LET Rest(m) ==
              <<[key |-> m.key, vs |-> m.end - 1 - Len(m.val), ve |-> m.end - 1]>>
                \o SpansFrom(m.end)
            First(c) == IF c = {} THEN <<>> ELSE Rest(AttrAt(s, Min(c)))
        IN  First({i \in pos..(Len(s) - 1) : AttrAt(s, i).ok})
  IN  SpansFrom(0)

\* the text of s outside the attribute values, piece by piece
Outside(s) ==
  LET Pieces(a) ==
        [i \in 1..(Len(a) + 1) |->
           Slice(s, IF i = 1 THEN 0 ELSE a[i - 1].ve, IF i > Len(a) THEN Len(s) ELSE a[i].vs)]
  IN  Pieces(AttrSpans(s))

\* new differs from old at most inside the values of the attributes whose
\* parsed value a widget of keys shows: for each key the last attribute of
\* that name, which is the one params[k] = v keeps
OnlyShownValuesChange(old, new, keys) ==
  LET Same(a, b) ==
        /\ Len(a) = Len(b)
        /\ Outside(old) = Outside(new)
        /\ \A i \in 1..Len(a) :
             \/ a[i].key \in keys /\ \A j \in (i + 1)..Len(a) : a[j].key # a[i].key
             \/ Slice(old, a[i].vs, a[i].ve) = Slice(new, b[i].vs, b[i].ve)
  IN  Same(AttrSpans(old), AttrSpans(new))

\* C11: build_smidata_text and build_lighting_text change the block text
\* only between the quotes of the attributes that have an edit widget: the
\* value of every other attribute and the rest of the text stay as they were.
C11_EditTouchesOnlyItsAttribute ==
  /\ current_smidata_block # <<>>
       => OnlyShownValuesChange(
            current_smidata_block[1].text,
            build_smidata_text(current_smidata_block[1], smidata_entries),
            {smidata_entries[n].key : n \in 1..Len(smidata_entries)})
  /\ current_lighting_block # <<>>
       => OnlyShownValuesChange(
            current_lighting_block[1].text,
            build_lighting_text(current_lighting_block[1], lighting_entries),
            {lighting_entries[n].key : n \in 1..Len(lighting_entries)})

\* C12: whatever the widgets hold, the text build_smidata_text returns, and
\* the text build_warp_text returns for a block with parsed entries, is as
\* long as the block text it was built from.
C12_EditsKeepBlockLength ==
  /\ current_smidata_block # <<>>
       => Len(build_smidata_text(current_smidata_block[1], smidata_entries))
            = Len(current_smidata_block[1].text)
  /\ (current_warp_block # <<>> /\ current_warp_block[1].entries # <<>>)
       => Len(build_warp_text(current_warp_block[1], warp_entries).text)
            = Len(current_warp_block[1].text)

\* what C14 says of the records lo found in the mapped content mm
LevelsWellFormed(lo, mm) ==
  /\ \A i \in 1..Len(lo) :
       /\ lo[i].loc_start >= LOC_START
       /\ lo[i].content_start = lo[i].loc_start + 5
       /\ lo[i].loc_end = lo[i].content_end + 6
       /\ lo[i].content_length = lo[i].content_end - lo[i].content_start
       /\ lo[i].content_length >= 0
       /\ Slice(mm, lo[i].loc_start, lo[i].content_start) = LOC_START_SIG
       /\ Slice(mm, lo[i].content_end, lo[i].loc_end) = LOC_END_SIG
       /\ Find(Slice(mm, lo[i].content_start, lo[i].content_end), LOC_END_SIG, 0) = -1
  /\ \A i \in 1..Len(lo) : \A j \in (i + 1)..Len(lo) : lo[i].loc_end <= lo[j].loc_start

\* C14: whatever the file holds, the level records a scan leaves are in
\* ascending order and do not overlap, start at or after LOC_START, have
\* content_start = loc_start + 5, loc_end = content_end + 6 and a
\* content_length >= 0 equal to content_end - content_start, have <loc> at
\* loc_start and </loc> at content_end, and hold no </loc> in their content.
C14_ScannedLevelsWellFormed ==
  [][\A w \in DOMAIN workers :
       (workers[w].pc = "levels" /\ workers'[w].pc = "smidata")
         => LevelsWellFormed(level_offsets', disk[workers[w].path])]_vars

\* a scan met an opening tag inside a block and took it for content
C14_Witness ==
  /\ Len(level_offsets) = 1
  /\ level_offsets[1].loc_start = LOC_START
  /\ level_offsets[1].content_length = 5
  /\ Slice(disk[level_offsets[1].src.path], level_offsets[1].content_start,
           level_offsets[1].content_end) = LOC_START_SIG

\* written is source with a run of Len(written) - Len(source) spaces put in
\* where C15 says: before the last </entityTree> in mode spaces_end, at the
\* end when there is none or in mode spaces_tail
PaddingPlaced(source, written, mode) ==
  LET diff == Len(written) - Len(source)
      ends == {p \in 0..Len(source) : MatchAt(source, END_TAG, p)}
      At(p) ==
        /\ Slice(written, 0, p) = Slice(source, 0, p)
        /\ \A k \in (p + 1)..(p + diff) : written[k] = " "
        /\ From(written, p + diff) = From(source, p)
        \* deleting the run gives back the source
        /\ Slice(written, 0, p) \o From(written, p + diff) = source
  IN  IF mode = "spaces_end" /\ ends # {} THEN At(Max(ends)) ELSE At(Len(source))

\* C15: when inject_level pads a source shorter than the slot, the bytes it
\* writes are the source with the spaces inserted immediately before its
\* last </entityTree> in mode spaces_end, and appended at the end when the
\* source has no </entityTree> or the mode is spaces_tail; deleting the
\* inserted run from the written bytes gives back the source.
C15_PaddingPlacement ==
  [][(/\ used'.injects = used.injects + 1
      /\ last'.op = "inject_level"
      /\ last'.result = "written"
      /\ Len(last'.text) < last'.slot)
       => PaddingPlaced(last'.text,
                        Slice(disk'[last'.path], last'.start, last'.start + last'.slot),
                        pad_mode)]_vars

\* a source with two </entityTree> was padded before the second one
C15_Witness ==
  /\ last.op = "inject_level"
  /\ last.result = "written"
  /\ pad_mode = "spaces_end"
  /\ last.text = END_TAG \o END_TAG
  /\ Len(last.text) < last.slot
  /\ Slice(disk[last.path], last.start + Len(END_TAG), last.start + Len(END_TAG) + 1) = <<" ">>

\* C16: build_warp_text gives the same result on every call: for the current
\* warp block, when it has parsed entries, and the widget contents as they
\* are, the text a second call returns (the one inject_warp_block writes
\* after export_warp_block or an inject that was declined or rejected made
\* the first call) is the text the first call returned.
C16_BuildWarpTextRepeatable ==
  (current_warp_block # <<>> /\ current_warp_block[1].entries # <<>>)
    => LET block == current_warp_block[1]
           first == build_warp_text(block, warp_entries)
           again == build_warp_text([block EXCEPT !.entries = first.entries], warp_entries)
       IN  again.text = first.text

\* offset in text of the n-th occurrence of sub, counted left to right
\* without overlap (-1 when there are fewer)
RECURSIVE NthOccurrence(_, _, _)
NthOccurrence(text, sub, n) ==
  LET After(prev) == IF prev = -1 THEN -1 ELSE Find(text, sub, prev + Len(sub))
  IN  IF n <= 1 THEN Find(text, sub, 0) ELSE After(NthOccurrence(text, sub, n - 1))

\* where the entry at position k of block.entries lies in block.text: an
\* entry whose text occurs more than once owns the occurrence of its rank
EntryStart(block, k) ==
  NthOccurrence(block.text, block.entries[k].text,
                Cardinality({j \in 1..k : block.entries[j].text = block.entries[k].text}))

\* block.text with the span of every entry replaced by that entry's own
\* new text, and nothing else touched
EachEntryInItsSpan(block, ws) ==
  LET RECURSIVE Walk(_)
      Walk(pos) ==
        LET here == {k \in 1..Len(block.entries) : EntryStart(block, k) = pos}
            Entry(k) ==
              NewEntryText(ws, k - 1, block.entries[k]) \o Walk(pos + Len(block.entries[k].text))
        IN  IF pos >= Len(block.text) THEN <<>>
            ELSE IF here # {} THEN Entry(Min(here))
            ELSE <<block.text[pos + 1]>> \o Walk(pos + 1)
  IN  Walk(0)

\* C17: build_warp_text changes, for every entry, only that entry's own
\* span of the block text: the text it returns is the block text with each
\* entry's span holding that entry's own edits, so that an entry with the
\* same text as an edited one, or an end-marker entry without widgets,
\* keeps its text.
C17_EditStaysInEntrySpan ==
  (current_warp_block # <<>> /\ current_warp_block[1].entries # <<>>)
    => build_warp_text(current_warp_block[1], warp_entries).text
         = EachEntryInItsSpan(current_warp_block[1], warp_entries)

\* C18: once a scan has finished, the current lighting block is the scanned
\* <SData> block at the position of the row selected in the stage list
\* (the block inject_lighting_block then writes at), also when blocks share
\* a Stage name or have none.
C18_SelectedStageIsCurrentBlock ==
  (/\ after_queue = 0
   /\ \A w \in DOMAIN workers : workers[w].pc = "done"
   /\ stage_combo.cur >= 0)
    => /\ stage_combo.cur < Len(lighting_blocks)
       /\ current_lighting_block = <<lighting_blocks[stage_combo.cur + 1]>>

\* C19: lighting round trip: while no widget of the lighting form has been
\* edited, build_lighting_text returns the text of the current block
\* unchanged, so an inject of the untouched block passes the length check
\* and rewrites the same bytes.
C19_UneditedLightingUnchanged ==
  (/\ current_lighting_block # <<>>
   /\ \A n \in DOMAIN lighting_entries : \A j \in DOMAIN lighting_entries[n].val :
        lighting_entries[n].val[j].widget = lighting_entries[n].val[j].orig)
    => build_lighting_text(current_lighting_block[1], lighting_entries)
         = current_lighting_block[1].text

\* C20: at most one scan worker runs at a time: from start_scan_thread until
\* the finish_scan the worker posted has run, the Scan All button stays
\* disabled, whatever the user does meanwhile (Load .dat included), and no
\* second worker is running.
C20_OneScanWorker ==
  /\ ((\E w \in DOMAIN workers : workers[w].pc # "done") \/ after_queue > 0)
       => btn_scan = "disabled"
  /\ Cardinality({w \in DOMAIN workers : workers[w].pc # "done"}) <= 1

\* C21: offsets always belong to the loaded file: whenever an inject has
\* written to the file at dat_path, the slot it wrote at was found by a scan
\* of that same file, so the offsets of a file loaded before are not usable.
C21_OffsetsOfLoadedFile ==
  (last.op \in ParamOps \cup {"inject_level"} /\ last.result = "written")
    => last.src.path = last.path

\* the values a block's form is filled with are the values its text holds
SmidataAgrees(b) == b.params = ToDict(FindAll(b.text))
LightingAgrees(b) ==
  [i \in 1..Len(b.params) |-> [key |-> b.params[i].key, val |-> b.params[i].original]]
    = FindAll(b.text)
WarpAgrees(b) ==
  [i \in 1..Len(b.entries) |-> b.entries[i].params]
    = [i \in 1..Len(WarpEntries(b.text, AREA_SIG, "area_change")
                      \o WarpEntries(b.text, WARP_SIG, "warp")) |->
         (WarpEntries(b.text, AREA_SIG, "area_change")
            \o WarpEntries(b.text, WARP_SIG, "warp"))[i].params]

\* C22: after a successful inject_smidata_block, inject_lighting_block or
\* inject_warp_block the in-memory block agrees with the file: the values
\* that selecting the block again fills the form with, and that a further
\* inject without new edits rewrites, are the values of the text that was
\* just written, not the values scanned originally.
C22_BlockAgreesAfterInject ==
  (last.op \in ParamOps /\ last.result = "written")
    => /\ \A i \in DOMAIN smidata_blocks : SmidataAgrees(smidata_blocks[i])
       /\ \A i \in DOMAIN lighting_blocks : LightingAgrees(lighting_blocks[i])
       /\ \A i \in DOMAIN warp_blocks :
            warp_blocks[i].entries # <<>> => WarpAgrees(warp_blocks[i])

\* C23: in every state of the entity editor, whatever files were loaded and
\* whatever was picked, selected or sliced, selected_indices has no
\* duplicates and each of its elements is an index into entities.
C23_SelectionValid ==
  /\ \A i, j \in 1..Len(selected_indices) :
       selected_indices[i] = selected_indices[j] => i = j
  /\ \A i \in 1..Len(selected_indices) :
       selected_indices[i] >= 0 /\ selected_indices[i] < Len(entities)

\* C24: the plane list shown always matches the plane data: row k of the
\* plane listbox names planes[k] and both have the same length, after any
\* plane creation, plane deletion and slice-axis change (back to None
\* included), so the selected row always indexes an existing plane.
C24_PlaneListMatchesPlanes ==
  /\ plane_listbox.rows = [k \in 1..Len(planes) |-> planes[k].name]
  /\ plane_listbox.sel < Len(planes)

\* what commit_batch_changes may change in a selected entity e: only the
\* scalar fields and the axes marked in dirty_fields, with the texts that
\* hold them
OnlyDirtyChanged(e, f) ==
  /\ \A k \in EntryFields : k \notin dirty_fields => f[k] = e[k]
  /\ "pos_0" \notin dirty_fields => f.x = e.x
  /\ "pos_1" \notin dirty_fields => f.y = e.y
  /\ "pos_2" \notin dirty_fields => f.z = e.z
  /\ "rot_0" \notin dirty_fields => f.rw = e.rw
  /\ "rot_1" \notin dirty_fields => f.rx = e.rx
  /\ "rot_2" \notin dirty_fields => f.ry = e.ry
  /\ "rot_3" \notin dirty_fields => f.rz = e.rz
  /\ f.p_indices = e.p_indices /\ f.r_indices = e.r_indices
  /\ f.id_tag_len = e.id_tag_len /\ f.pack = e.pack /\ f.child_ids = e.child_ids
  /\ dirty_fields = {} => f = e

\* C25: commit_batch_changes changes only what was edited: an entity that is
\* not selected keeps its raw text and all fields, in a selected entity only
\* the fields marked in dirty_fields change value (an axis that is not dirty
\* keeps its number), and with an empty selection nothing changes.
C25_CommitChangesOnlyEdited ==
  [][commit_batch_changes
       => /\ Len(entities') = Len(entities)
          /\ \A i \in 1..Len(entities) :
               IF \E k \in 1..Len(selected_indices) : selected_indices[k] = i - 1
                 THEN OnlyDirtyChanged(entities[i], entities'[i])
                 ELSE entities'[i] = entities[i]
          /\ selected_indices = <<>>
               => UNCHANGED <<entities, dirty_fields, pos_vars, rot_vars, entry>>]_vars

\* a commit of one dirty axis to three selected entities: the first axis of
\* each holds the committed value, the third axis is as it was loaded, and
\* an entity that was not selected has the text it was loaded with
C25_Witness ==
  /\ selected_indices = <<1, 3, 4>>
  /\ Len(entities) = 5
  /\ dirty_fields = {}
  /\ \A i \in {2, 4, 5} :
       /\ entities[i].x = Num(FALSE, 1, 2)
       /\ entities[i].z = _parse_block(hist.raws[i]).ent.z
  /\ entities[2].raw # hist.raws[2]
  /\ entities[3].raw = hist.raws[3]

\* the tag spellings _parse_block reads field f from
FieldTags(f) ==
  IF f = "spd" THEN <<TAG.move_speed, TAG.speed>>
  ELSE IF f = "pth" THEN <<TAG.move_path_id, TAG.path_id>>
  ELSE <<CommitTags[CHOOSE k \in 1..Len(CommitTags) : CommitTags[k][1] = f][2]>>

\* C26: for every scalar field of every entity whose raw text holds the
\* field's tags, in any spelling that _parse_block reads, the value held in
\* memory is the value stored between the tags, surrounding spaces
\* ignored; so it is after commit_batch_changes for the fields that were
\* dirty, and what the editor shows is what save_map_file writes.
C26_FieldsAgreeWithRaw ==
  \A i \in 1..Len(entities) : \A f \in EntryFields :
    (\E n \in 1..Len(FieldTags(f)) : get_t(FieldTags(f)[n], entities[i].raw).found)
      => entities[i][f] = find_val(FieldTags(f), entities[i].raw)

\* C27: the editor shows the negation of the stored coordinate; a commit
\* sets, for each dirty axis with editor value v, the coordinate of every
\* selected entity with a parsed <posi> to -v in absolute mode and to its
\* old value plus -v in offset mode; an offset-mode commit resets the three
\* position variables to 0, and a commit without edits changes no
\* coordinate
SameNumber(a, b) == NumLe(a, b) /\ NumLe(b, a)
Coord(e, a) == <<e.x, e.y, e.z>>[a]
AxisDirty(a) == <<"pos_0", "pos_1", "pos_2">>[a] \in dirty_fields
Committed(e, f) ==
  \A a \in 1..3 :
    IF AxisDirty(a) /\ Len(e.p_indices) = 3
      THEN IF offset_mode
             THEN SameNumber(NumAdd(Coord(f, a), pos_vars[a]), Coord(e, a))
             ELSE SameNumber(NumAdd(Coord(f, a), pos_vars[a]), Num(FALSE, 0, 1))
      ELSE Coord(f, a) = Coord(e, a)
CoordsAgreeWithRaw(e) ==
  \A a \in 1..3 : SameNumber(Coord(e, a), Coord(_parse_block(e.raw).ent, a))
C28_UnparsedUntouched ==
  [][(commit_batch_changes \/ swap_positions \/ snap_to_plane)
       => /\ Len(entities') = Len(entities)
          /\ \A i \in 1..Len(entities) :
               entities[i].p_indices = <<>>
                 => /\ \A a \in 1..3 : Coord(entities'[i], a) = Coord(entities[i], a)
                    /\ entities'[i].raw = entities[i].raw
          /\ \A i \in 1..Len(entities') : CoordsAgreeWithRaw(entities'[i])]_vars

\* C29: format_strict(val, width) gives, for every coordinate and rotation
\* value an entity holds and the width of the token it is written into, a
\* text of exactly width characters that reads as a decimal number and is
\* the full text of val without some of its fractional digits: all integer
\* digits are kept and no bare sign is left
Faithful(val, width, text) ==
  LET full == FormatFixed(val, 10)
      dot == Find(full, <<".">>, 0)
      t == Strip(text)
  IN  /\ Len(text) = width
      /\ Float(text).ok
      /\ Len(t) >= dot
      /\ t = Slice(full, 0, Len(t))
TokensFaithful(vals, spans) ==
  \A a \in 1..Len(spans) :
    Faithful(vals[a], spans[a][2] - spans[a][1],
             format_strict(vals[a], spans[a][2] - spans[a][1]))
C29_FormatStrictFaithful ==
  \A i \in 1..Len(entities) :
    /\ TokensFaithful(<<entities[i].x, entities[i].y, entities[i].z>>, entities[i].p_indices)
    /\ TokensFaithful(<<entities[i].rw, entities[i].rx, entities[i].ry, entities[i].rz>>,
                      entities[i].r_indices)

\* C30: in the default order refresh_list indents a row if and only if its
\* entity was loaded inside a <child> block of some parent; a top-level
\* entity is never indented
C30_IndentIffChild ==
  (Len(hist.in_child) = Len(entities) /\ display_mapping = [k \in 1..Len(entities) |-> k - 1])
    => \A k \in 1..Len(entities) :
         (refresh_list(entities, display_mapping)[k].prefix # <<>>) <=> hist.in_child[k]

\* C13: the .dat file changes only in a step of one of the four inject
\* operations in which the confirmation was shown and answered yes; an
\* attempt that was declined, or made with no block or slot selected, leaves
\* every file as it was.
C13_NoWriteWithoutConfirmation ==
  [][/\ disk' # disk
          => /\ used'.injects = used.injects + 1
             /\ last'.op \in ParamOps \cup {"inject_level"}
             /\ last'.asked /\ last'.yes /\ last'.result = "written"
     /\ (used'.injects = used.injects + 1 /\ (~last'.yes \/ last'.result \in {"declined", "nosel"}))
          => disk' = disk]_vars

C13_Witness ==
  /\ last.op = "inject_smidata_block"
  /\ last.result = "declined"
  /\ last.asked /\ ~last.yes
  /\ Slice(last.before, last.start, last.start + last.slot) # last.data
  /\ disk[last.path] = last.before

(***************************************************************************)
(* Properties of the entity editor                                         *)
(***************************************************************************)
\* the tokens from token k on close what stack and they themselves open
RECURSIVE ProperlyNested(_, _, _)
ProperlyNested(toks, k, stack) ==
  IF k > Len(toks) THEN stack = <<>>
  ELSE IF toks[k].token \in {ENTITY_OPEN, CHILD_OPEN}
    THEN ProperlyNested(toks, k + 1, Append(stack, toks[k].token))
  ELSE /\ stack # <<>>
       /\ stack[Len(stack)] = (IF toks[k].token = ENTITY_CLOSE THEN ENTITY_OPEN ELSE CHILD_OPEN)
       /\ ProperlyNested(toks, k + 1, SubSeq(stack, 1, Len(stack) - 1))

\* a file has been loaded and its four tokens are properly nested
LoadedNested == mused.loads = 1 /\ ProperlyNested(MapTokens(hist.content), 1, <<>>)

\* C6: the raw text of every entity is as long as it was when the file was
\* loaded, whatever commit_batch_changes, snap_to_plane and swap_positions
\* have done since, and the text save_map_file writes is as long as the text
\* that was loaded.
C6_RawKeepsLength ==
  /\ \A i \in 1..Len(entities) : Len(entities[i].raw) = Len(hist.raws[i])
  /\ hist.saved_done => Len(Decode(hist.saved)) = Len(hist.content)

\* C7: for a loaded text whose tokens are properly nested, the
\* concatenation of file_sequence is the decoded content of the file, and
\* a save_map_file with no edit since the load writes exactly that text.
C7_LoadSaveRoundTrip ==
  LoadedNested
    => /\ mused.ops = 0 => JoinSequence(file_sequence, entities) = hist.content
       /\ (hist.saved_done /\ mused.ops = 1) => hist.saved = Encode(hist.content)

\* the parent of each <entity> token, by its place in the order of the
\* <entity> tokens and 0 for none: the entity whose <child> block the token
\* lies directly in; stack holds the open entities and <child> blocks
RECURSIVE TreeParents(_, _, _, _)
TreeParents(toks, k, stack, parents) ==
  LET Top(none) == IF stack = <<>> THEN none ELSE stack[Len(stack)]
      Open(top) ==
        TreeParents(toks, k + 1, Append(stack, [child |-> FALSE, n |-> Len(parents) + 1]),
                    Append(parents, IF top.child THEN top.n ELSE 0))
      Child(top) ==
        TreeParents(toks, k + 1, Append(stack, [child |-> TRUE, n |-> top.n]), parents)
  IN  IF k > Len(toks) THEN parents
      ELSE IF toks[k].token = ENTITY_OPEN THEN Open(Top([child |-> FALSE, n |-> 0]))
      ELSE IF toks[k].token = CHILD_OPEN THEN Child(Top([child |-> FALSE, n |-> 0]))
      ELSE TreeParents(toks, k + 1, SubSeq(stack, 1, Len(stack) - 1), parents)

\* C8: after load_file of a properly nested file (its entities taken in the
\* order of their <entity> tokens), the id of an entity is in the child_ids
\* of the entity whose <child> block it lies directly in, a nested parent
\* included, and in the child_ids of no other entity.
C8_ChildIdsRecorded ==
  LET Recorded(p, k) ==
        \E j \in 1..Len(entities[p].child_ids) : entities[p].child_ids[j] = entities[k].id
      Tree(parents) ==
        Len(entities) = Len(parents)
          => \A k \in 1..Len(entities), p \in 1..Len(entities) :
               Recorded(p, k) <=> parents[k] = p
  IN  (LoadedNested /\ mused.ops = 0)
        => Tree(TreeParents(MapTokens(hist.content), 1, <<>>, <<>>))

\* the number of user-made planes in the plane list ps
UserPlanes(ps) == Len(SelectSeq(ps, LAMBDA p : ~p.auto))

C10_SnapToPlane ==
  [][LET Zero == Num(FALSE, 0, 1)
         Half == Num(FALSE, 1, 2)
         Big(v) == ~NumLe([v EXCEPT !.neg = FALSE], Half)
         Selected(i) == \E j \in 1..Len(selected_indices) : selected_indices[j] = i - 1
         OnPlane(co, e) ==
           /\ NumLe(NumAdd(Dot(co, <<e.x, e.z, e.y>>), co[4]), Zero)
           /\ NumLe(Zero, NumAdd(Dot(co, <<e.x, e.z, e.y>>), co[4]))
         Kept(axis, old, new) ==
           /\ axis # "x" => new.x = old.x
           /\ axis # "y" => new.y = old.y
           /\ axis # "z" => new.z = old.z
         Snapped(co, axis) ==
           \A i \in 1..Len(entities) :
             IF Selected(i)
               THEN OnPlane(co, entities'[i]) /\ Kept(axis, entities[i], entities'[i])
               ELSE entities'[i] = entities[i]
         Plane(co) ==
           Snapped(co, IF Big(co[3]) THEN "y" ELSE IF Big(co[2]) THEN "z"
                       ELSE IF Big(co[1]) THEN "x" ELSE "y")
     IN  snap_to_plane
           => IF plane_listbox.sel = -1 \/ selected_indices = <<>>
                THEN entities' = entities
                ELSE plane_listbox.sel < Len(planes)
                       => Plane(planes[plane_listbox.sel + 1].coeffs)]_vars

====
